---- MODULE Spec2Model ----
(***************************************************************************)
(* Trusted SOS of khidmaty-mobile: the sendSos dispatcher, the phone claim *)
(* (setMyPhoneNumber) and the mirrored trust edges (createRequest, respond,*)
(* cancelRequest), over a model of the Firestore documents they use.       *)
(***************************************************************************)
EXTENDS Integers, Sequences, FiniteSets, TLC

\* ------------------------------------------------------------------ bounds
TicksPerWindow == 3
MaxTicks == 4
MaxJitter == 1
MaxCalls == 5
MaxPhoneCalls == 4

\* --------------------------------------------------------- program constants
WindowMs == 30 * 60 * 1000
RateCap == 3

TickMs == WindowMs \div TicksPerWindow

Accounts == {"a", "b", "c"}
NoUid == ""
EventIds == {"e1", "e2"}
DeviceIds == {"d1", "d2"}
Calls == {1, 2}

\* Firestore returns the documents of a collection in document-id order.
AccountOrder == <<"a", "b", "c">>
DeviceOrder == <<"d1", "d2">>

\* ------------------------------------------------------------------- state
VARIABLES
  clock,      \* server time in ms (Timestamp.now().toMillis())
  rate,       \* sos_rate/{uid}: [exists, windowStart, count]
  rateVer,    \* update counter of sos_rate/{uid}, what a transaction validates
  passed,     \* history: calls of uid that passed the rate step since the last reset
  passLog,    \* history: of every call of uid that passed the rate step, its
              \* timestamp and the windowStart it was counted under
  nCalls,     \* history: sendSos calls started so far
  call,       \* the sendSos invocations in flight, one record per slot
  events,     \* sos_events/{id}: [exists, senderUid]
  devices,    \* devices/{uid}/tokens/{deviceId}: [exists, expoPushToken, webPushToken]
  trusted,    \* trusted/{owner}/contacts/{trusted}: the owner's outgoing record
  incoming,   \* incoming/{trusted}/requests/{owner}: the mirror record
  inRows,     \* IncomingRequestsScreen of each account: the owners whose row,
              \* as of the last onSnapshot, shows status pending
  trustOp,    \* history: the last trust operation, who ran it on which edge, and
              \* whether it was written
  users,      \* users/{uid}: [phone], "" when the field is not set
  phone_index,\* phone_index/{phone}: [exists, uid]
  userVer,    \* update counters of users/{uid} and phone_index/{phone}
  phoneVer,
  nPhoneCalls,\* history: setMyPhoneNumber calls started so far
  pcall,      \* the setMyPhoneNumber invocations in flight
  session,    \* the account signed in on each app installation (device id)
  alarm,      \* lib/alarm.ts: running, sound, the vibration, and the
              \* invocations of startAlarm and stopAlarm in flight
  delivery    \* one run of sendExpoPush / sendFcmWebPush on its own

rateVars == <<rate, rateVer, passed, passLog>>
sosVars == <<nCalls, call, events, devices>>
trustVars == <<trusted, incoming, inRows, trustOp>>
phoneVars == <<users, phone_index, userVer, phoneVer, nPhoneCalls, pcall>>
clientVars == <<session, alarm>>
fnVars == <<delivery>>
vars == <<clock, rateVars, sosVars, trustVars, phoneVars, clientVars, fnVars>>

NoRate == [exists |-> FALSE, windowStart |-> 0, count |-> 0]
NoEvent == [exists |-> FALSE, senderUid |-> "", message |-> "", lat |-> 0, lon |-> 0]
NoResult == [code |-> "", sent |-> 0, recipients |-> 0, tokens |-> 0,
             expoTokens |-> 0, webTokens |-> 0, errors |-> 0]

HttpsError(code) == [NoResult EXCEPT !.code = code]

NoDevice == [exists |-> FALSE, expoPushToken |-> "", webPushToken |-> ""]
NoSendRes == [ok |-> 0, errors |-> <<>>]

IdleCall == [pc |-> "idle", uid |-> NoUid, eventId |-> "", now |-> 0,
             snap |-> NoRate, snapVer |-> 0, attempts |-> 0, foreign0 |-> FALSE,
             trustedUids |-> <<>>, toRead |-> {}, tokenDocs |-> <<>>,
             expoRes |-> NoSendRes, fcmRes |-> NoSendRes,
             sentExpo |-> <<>>, sentWeb |-> <<>>, refused |-> {}, deleted |-> {},
             accepted |-> {}, okExpo |-> {}, okWeb |-> {},
             expoPayloads |-> <<>>, fcmPayloads |-> <<>>,
             result |-> NoResult]

\* What is left of an invocation once it has returned or thrown.
Returned(cl, result) ==
  [IdleCall EXCEPT !.pc = "done", !.uid = cl.uid, !.eventId = cl.eventId, !.now = cl.now,
                   !.snap = cl.snap, !.attempts = cl.attempts, !.foreign0 = cl.foreign0,
                   !.sentExpo = cl.sentExpo, !.sentWeb = cl.sentWeb,
                   !.deleted = cl.deleted, !.result = result]

\* --------------------------------------------------------------- the clock
Tick ==
  /\ clock \div TickMs < MaxTicks
  /\ clock' = (clock \div TickMs + 1) * TickMs
  /\ UNCHANGED <<rateVars, sosVars, trustVars, phoneVars, clientVars, fnVars>>

Jitter ==
  /\ clock % TickMs < MaxJitter
  /\ clock' = clock + 1
  /\ UNCHANGED <<rateVars, sosVars, trustVars, phoneVars, clientVars, fnVars>>

\* ------------------------------------------------- sendSos: entry, rate limit
\* requireAuth, the eventId check and Timestamp.now(), all before the first await.
SosBegin(c, uid, eventId) ==
  /\ call[c].pc \in {"idle", "done"}
  /\ call' = [call EXCEPT ![c] =
       IF uid = NoUid
         THEN [IdleCall EXCEPT !.pc = "done", !.result = HttpsError("unauthenticated")]
       ELSE IF eventId = ""
         THEN [IdleCall EXCEPT !.pc = "done", !.uid = uid,
                               !.result = HttpsError("invalid-argument")]
       ELSE [IdleCall EXCEPT !.pc = "rate_get", !.uid = uid, !.eventId = eventId,
                             !.now = clock,
                             !.foreign0 = events[eventId].exists
                                            /\ events[eventId].senderUid # uid]]
  /\ UNCHANGED <<clock, rateVars, events, devices, trustVars, phoneVars, clientVars, fnVars>>

\* A call counted against the bound on the number of calls of a run.
SosBeginCounted(c, uid, eventId) ==
  /\ nCalls < MaxCalls
  /\ nCalls' = nCalls + 1
  /\ SosBegin(c, uid, eventId)

\* The body of the transaction function on the snapshot it read.
RateWindowStart(snap, now) == IF snap.exists THEN snap.windowStart ELSE now
RateCount(snap) == IF snap.exists THEN snap.count ELSE 0
WithinWindow_Never(snap, now) == FALSE

\* now.toMillis() - windowStart.toMillis() < windowMs
WithinWindow(snap, now) == now - RateWindowStart(snap, now) < WindowMs
RateExceeded_OffByOne(snap, now) == WithinWindow(snap, now) /\ RateCount(snap) > RateCap

RateExceeded(snap, now) == WithinWindow(snap, now) /\ RateCount(snap) >= RateCap
RateNext_KeepStart(snap, now) ==
  [exists |-> TRUE,
   windowStart |-> RateWindowStart(snap, now),
   count |-> IF WithinWindow(snap, now) THEN RateCount(snap) + 1 ELSE 1]

\* The record the transaction stores: { windowStart, count }.
RateNext(snap, now) ==
  [exists |-> TRUE,
   windowStart |-> IF WithinWindow(snap, now) THEN RateWindowStart(snap, now) ELSE now,
   count |-> IF WithinWindow(snap, now) THEN RateCount(snap) + 1 ELSE 1]

\* tx.get(rateRef) and the transaction function up to its throw or tx.set.
SosRateGet(c) ==
  LET u == call[c].uid
      snap == rate[u]
  IN
  /\ call[c].pc = "rate_get"
  /\ call' = [call EXCEPT ![c] =
       IF RateExceeded(snap, call[c].now)
         THEN Returned([@ EXCEPT !.snap = snap], HttpsError("resource-exhausted"))
         ELSE [@ EXCEPT !.pc = "rate_commit", !.snap = snap, !.snapVer = rateVer[u],
                        !.attempts = @ + 1]]
  /\ UNCHANGED <<clock, rateVars, nCalls, events, devices, trustVars, phoneVars, clientVars, fnVars>>

TxValid_Blind(readVer, curVer) == TRUE

\* runTransaction commits only when the document it read is unchanged.
TxValid(readVer, curVer) == readVer = curVer

\* The commit of the tx.set; a conflicting commit re-runs the transaction
\* function (with the `now` taken before runTransaction). The history
\* passLog is written when logged.
RateCommit(c, logged) ==
  LET u == call[c].uid
      snap == call[c].snap
      now == call[c].now
  IN
  /\ call[c].pc = "rate_commit"
  /\ IF ~TxValid(call[c].snapVer, rateVer[u])
       THEN /\ call' = [call EXCEPT ![c].pc = "rate_get"]
            /\ UNCHANGED <<rate, rateVer, passed, passLog>>
       ELSE /\ rate' = [rate EXCEPT ![u] = RateNext(snap, now)]
            /\ rateVer' = [rateVer EXCEPT ![u] = @ + 1]
            /\ passed' = [passed EXCEPT ![u] = IF WithinWindow(snap, now) THEN @ + 1 ELSE 1]
            /\ passLog' = [passLog EXCEPT ![u] =
                  IF logged
                    THEN Append(@, [now |-> now,
                                    windowStart |-> RateNext(snap, now).windowStart])
                    ELSE @]
            /\ call' = [call EXCEPT ![c].pc = "event"]
  /\ UNCHANGED <<clock, nCalls, events, devices, trustVars, phoneVars, clientVars, fnVars>>

SosRateCommit(c) == RateCommit(c, FALSE)
SosRateCommitLogged(c) == RateCommit(c, TRUE)

NotOwner_Unchecked(ev, senderUid) == FALSE

\* cleanString(event?.senderUid) !== senderUid
NotOwner(ev, senderUid) == ev.senderUid # senderUid

\* eventRef.get(), not-found and the ownership check
SosEvent(c) ==
  LET ev == events[call[c].eventId] IN
  /\ call[c].pc = "event"
  /\ call' = [call EXCEPT ![c] =
       IF ~ev.exists
         THEN Returned(@, HttpsError("not-found"))
       ELSE IF NotOwner(ev, call[c].uid)
         THEN Returned(@, HttpsError("permission-denied"))
       ELSE [@ EXCEPT !.pc = "contacts"]]
  /\ UNCHANGED <<clock, rateVars, nCalls, events, devices, trustVars, phoneVars, clientVars, fnVars>>

\* ------------------------------------------------ sendSos: the recipients
SeqOfSet(order, S) == SelectSeq(order, LAMBDA x : x \in S)
Range(q) == {q[i] : i \in 1..Len(q)}

RECURSIVE Flatten(_)
Flatten(qq) == IF qq = <<>> THEN <<>> ELSE Head(qq) \o Flatten(Tail(qq))

AcceptedContacts_AnyStatus(senderUid) ==
  {t \in Accounts : trusted[senderUid][t].exists}

\* trusted/{senderUid}/contacts where status == "accepted"
AcceptedContacts(senderUid) ==
  {t \in Accounts : trusted[senderUid][t].exists /\ trusted[senderUid][t].status = "accepted"}

EmptyResult_AsError == HttpsError("not-found")

\* { sent: 0, recipients: 0, tokens: 0, expoTokens: 0, webTokens: 0, errors: 0 }
EmptyResult == [NoResult EXCEPT !.code = "ok"]

\* The contacts query and the early return when it is empty.
SosContacts(c) ==
  LET uid == call[c].uid
      trustedUids == SeqOfSet(AccountOrder, AcceptedContacts(uid))
      accepted == {t \in Accounts : trusted[uid][t].status = "accepted"}
  IN
  /\ call[c].pc = "contacts"
  /\ call' = [call EXCEPT ![c] =
       IF Len(trustedUids) = 0
         THEN Returned(@, EmptyResult)
         ELSE [@ EXCEPT !.pc = "tokens", !.trustedUids = trustedUids,
                        !.toRead = Range(trustedUids),
                        !.tokenDocs = [i \in 1..Len(trustedUids) |-> <<>>],
                        !.accepted = accepted]]
  /\ UNCHANGED <<clock, rateVars, nCalls, events, devices, trustVars, phoneVars, clientVars, fnVars>>

DeviceDocs_Everyone(trustedUid) ==
  Flatten([i \in 1..Len(AccountOrder) |->
    LET docs == [j \in 1..Len(DeviceOrder) |->
                   [ref |-> <<AccountOrder[i], DeviceOrder[j]>>,
                    expoPushToken |-> devices[AccountOrder[i]][DeviceOrder[j]].expoPushToken,
                    webPushToken |-> devices[AccountOrder[i]][DeviceOrder[j]].webPushToken]]
    IN SelectSeq(docs, LAMBDA x : x.expoPushToken # "" \/ x.webPushToken # "")])

\* devices/{trustedUid}/tokens, mapped to {ref, expoPushToken, webPushToken}
\* and filtered to the documents that hold a token.
DeviceDocs(trustedUid) ==
  LET docs == [j \in 1..Len(DeviceOrder) |->
                 [ref |-> <<trustedUid, DeviceOrder[j]>>,
                  expoPushToken |-> devices[trustedUid][DeviceOrder[j]].expoPushToken,
                  webPushToken |-> devices[trustedUid][DeviceOrder[j]].webPushToken]]
  IN SelectSeq(docs, LAMBDA x :
       devices[x.ref[1]][x.ref[2]].exists /\ (x.expoPushToken # "" \/ x.webPushToken # ""))

TokensOf(uid, field) ==
  {devices[uid][d][field] : d \in {e \in DeviceIds : devices[uid][e].exists}} \ {""}

\* A Map<string, DocumentReference[]> in insertion order: a sequence of
\* <<token, refs>>; MapPush is get(token) || [], push(ref), set(token, arr).
MapHas(m, key) == \E i \in 1..Len(m) : m[i][1] = key
MapPush_Always(m, key, ref) == Append(m, <<key, <<ref>>>>)

MapPush(m, key, ref) ==
  IF MapHas(m, key)
    THEN [i \in 1..Len(m) |-> IF m[i][1] = key THEN <<key, Append(m[i][2], ref)>> ELSE m[i]]
    ELSE Append(m, <<key, <<ref>>>>)
MapKeys(m) == [i \in 1..Len(m) |-> m[i][1]]
MapGet(m, key) == IF MapHas(m, key) THEN (CHOOSE e \in Range(m) : e[1] = key)[2] ELSE <<>>

TokenToRefs_NoDedup(docs, field) ==
  LET withToken == SelectSeq(docs, LAMBDA x : x[field] # "")
  IN [i \in 1..Len(withToken) |-> <<withToken[i][field], <<withToken[i].ref>>>>]

\* expoTokenToRefs / webTokenToRefs over the flattened tokenDocs
RECURSIVE TokenToRefs(_, _)
TokenToRefs(docs, field) ==
  IF docs = <<>> THEN <<>>
  ELSE LET n == Len(docs)
           m == TokenToRefs(SubSeq(docs, 1, n - 1), field)
       IN IF docs[n][field] # "" THEN MapPush(m, docs[n][field], docs[n].ref) ELSE m

\* One of the token reads of the Promise.all, for one trusted account.
SosTokens(c, trustedUid) ==
  LET i == CHOOSE j \in 1..Len(call[c].trustedUids) : call[c].trustedUids[j] = trustedUid
      last == call[c].toRead = {trustedUid}
      isAccepted == trustedUid \in call[c].accepted
  IN
  /\ call[c].pc = "tokens"
  /\ trustedUid \in call[c].toRead
  /\ call' = [call EXCEPT ![c].tokenDocs[i] = DeviceDocs(trustedUid),
                          ![c].toRead = @ \ {trustedUid},
                          ![c].okExpo = IF isAccepted
                                          THEN @ \cup TokensOf(trustedUid, "expoPushToken")
                                          ELSE @,
                          ![c].okWeb = IF isAccepted
                                         THEN @ \cup TokensOf(trustedUid, "webPushToken")
                                         ELSE @,
                          ![c].pc = IF last THEN "expo" ELSE "tokens"]
  /\ UNCHANGED <<clock, rateVars, nCalls, events, devices, trustVars, phoneVars, clientVars, fnVars>>

\* ------------------------------------------------- sendSos: the transports
ExpoBatch == 100
FcmBatch == 500
DeleteBatch == 450

Max(x, y) == IF x > y THEN x ELSE y
Min(x, y) == IF x < y THEN x ELSE y

Chunk_DropTail(items, size) ==
  LET n == Max(1, size)
      k == Len(items) \div n
  IN [b \in 1..k |-> SubSeq(items, (b - 1) * n + 1, b * n)]

\* chunk(items, size)
Chunk(items, size) ==
  LET n == Max(1, size)
      k == (Len(items) + n - 1) \div n
  IN [b \in 1..k |-> SubSeq(items, (b - 1) * n + 1, Min(b * n, Len(items)))]

ExpoCodes == {"ok", "DeviceNotRegistered", "InvalidCredentials", "MessageRateExceeded"}
FcmCodes == {"ok", "messaging/registration-token-not-registered",
             "messaging/invalid-registration-token", "messaging/internal-error"}

ExpoMessage_WithText(t, eventId) ==
  [to |-> t, title |-> "SOS Alert", body |-> events[eventId].message, sound |-> "default",
   priority |-> "high", channelId |-> "sos", data |-> [type |-> "sos", eventId |-> eventId]]

\* The Expo message for one token (the title without its emoji).
ExpoMessage(t, eventId) ==
  [to |-> t, title |-> "SOS Alert", body |-> "Tap to view location", sound |-> "default",
   priority |-> "high", channelId |-> "sos", data |-> [type |-> "sos", eventId |-> eventId]]

\* What sendEachForMulticast sends to one token of a batch.
FcmMessage(t, eventId) ==
  [token |-> t,
   data |-> [type |-> "sos", eventId |-> eventId, title |-> "SOS Alert",
             body |-> "Tap to view location"],
   webpush |-> [headers |-> [Urgency |-> "high"]]]

ExpoTokensOf(c) == MapKeys(TokenToRefs(Flatten(call[c].tokenDocs), "expoPushToken"))
WebTokensOf(c) == MapKeys(TokenToRefs(Flatten(call[c].tokenDocs), "webPushToken"))

\* The errors one batch adds: one http_error for a refused batch, else one
\* expo_error per ticket that is not ok.
ExpoBatchErrors(batch, httpOk, answer) ==
  IF ~httpOk THEN << [type |-> "http_error", token |-> "", code |-> ""] >>
  ELSE LET bad == SelectSeq(batch, LAMBDA t : answer[t] # "ok")
       IN [i \in 1..Len(bad) |-> [type |-> "expo_error", token |-> bad[i], code |-> answer[bad[i]]]]
ExpoBatchOk_None(batch, httpOk, answer) == 0

\* The tickets of one batch with status ok.
ExpoBatchOk(batch, httpOk, answer) ==
  IF ~httpOk THEN 0 ELSE Len(SelectSeq(batch, LAMBDA t : answer[t] = "ok"))

RECURSIVE SumSeq(_)
SumSeq(q) == IF q = <<>> THEN 0 ELSE Head(q) + SumSeq(Tail(q))

SendExpoPush_StopAtRefusal(messages, httpFailed, answer) ==
  LET batches == Chunk(messages, ExpoBatch)
      upTo == IF \E b \in 1..Len(batches) : b \in httpFailed
                THEN CHOOSE b \in 1..Len(batches) :
                       b \in httpFailed /\ \A a \in 1..(b - 1) : a \notin httpFailed
                ELSE Len(batches)
  IN
  [ok |-> SumSeq([b \in 1..upTo |-> ExpoBatchOk(batches[b], b \notin httpFailed, answer)]),
   errors |-> Flatten([b \in 1..upTo |->
                    ExpoBatchErrors(batches[b], b \notin httpFailed, answer)])]

\* sendExpoPush(messages): httpFailed is the set of batches answered with a
\* non-2xx status, answer the ticket of each token.
SendExpoPush(messages, httpFailed, answer) ==
  LET batches == Chunk(messages, ExpoBatch) IN
  [ok |-> SumSeq([b \in 1..Len(batches) |->
                    ExpoBatchOk(batches[b], b \notin httpFailed, answer)]),
   errors |-> Flatten([b \in 1..Len(batches) |->
                    ExpoBatchErrors(batches[b], b \notin httpFailed, answer)])]

SosSendExpo(c, httpFailed, answer) ==
  LET messages == ExpoTokensOf(c) IN
  /\ call[c].pc = "expo"
  /\ DOMAIN answer = Range(messages)
  /\ httpFailed \subseteq 1..Len(Chunk(messages, ExpoBatch))
  /\ call' = [call EXCEPT ![c].pc = "fcm",
                          ![c].sentExpo = messages,
                          ![c].expoPayloads = [i \in 1..Len(messages) |->
                                                 ExpoMessage(messages[i], call[c].eventId)],
                          ![c].refused = UNION {Range(Chunk(messages, ExpoBatch)[b]) :
                                                  b \in httpFailed},
                          ![c].expoRes = SendExpoPush(messages, httpFailed, answer)]
  /\ UNCHANGED <<clock, rateVars, nCalls, events, devices, trustVars, phoneVars, clientVars, fnVars>>

\* One multicast of sendFcmWebPush: successCount and one fcm_error per
\* response that is not a success.
FcmBatchErrors(batch, answer) ==
  LET bad == SelectSeq(batch, LAMBDA t : answer[t] # "ok")
  IN [i \in 1..Len(bad) |-> [type |-> "fcm_error", token |-> bad[i], code |-> answer[bad[i]]]]
FcmBatchOk_All(batch, answer) == Len(batch)

\* res.successCount
FcmBatchOk(batch, answer) == Len(SelectSeq(batch, LAMBDA t : answer[t] = "ok"))

\* sendFcmWebPush({tokens, eventId})
SendFcmWebPush(tokens, answer) ==
  LET batches == Chunk(tokens, FcmBatch) IN
  [ok |-> SumSeq([b \in 1..Len(batches) |-> FcmBatchOk(batches[b], answer)]),
   errors |-> Flatten([b \in 1..Len(batches) |-> FcmBatchErrors(batches[b], answer)])]

SosSendFcm(c, answer) ==
  LET tokens == WebTokensOf(c) IN
  /\ call[c].pc = "fcm"
  /\ DOMAIN answer = Range(tokens)
  /\ call' = [call EXCEPT ![c].pc = "cleanup",
                          ![c].sentWeb = Flatten(Chunk(tokens, FcmBatch)),
                          ![c].fcmPayloads = [i \in 1..Len(tokens) |->
                                                FcmMessage(tokens[i], call[c].eventId)],
                          ![c].fcmRes = SendFcmWebPush(tokens, answer)]
  /\ UNCHANGED <<clock, rateVars, nCalls, events, devices, trustVars, phoneVars, clientVars, fnVars>>

\* An await of the dispatch rejects (fetch, sendEachForMulticast or a
\* Firestore read): the exception leaves the handler as an internal error.
SosThrows(c) ==
  /\ call[c].pc \in {"contacts", "tokens", "expo", "fcm"}
  /\ call' = [call EXCEPT ![c] = Returned(@, HttpsError("internal"))]
  /\ UNCHANGED <<clock, rateVars, nCalls, events, devices, trustVars, phoneVars, clientVars, fnVars>>

\* --------------------------------------------------- sendSos: the cleanup
\* err === "DeviceNotRegistered" || err === "InvalidCredentials"
IsInvalidExpo(e) == e.token # "" /\ e.code \in {"DeviceNotRegistered", "InvalidCredentials"}

IsInvalidWeb(e) ==
  e.token # "" /\ e.code \in {"messaging/registration-token-not-registered",
                              "messaging/invalid-registration-token"}

InvalidExpoTokens(c) ==
  {call[c].expoRes.errors[i].token :
     i \in {j \in 1..Len(call[c].expoRes.errors) : IsInvalidExpo(call[c].expoRes.errors[j])}}
InvalidWebTokens(c) ==
  {call[c].fcmRes.errors[i].token :
     i \in {j \in 1..Len(call[c].fcmRes.errors) : IsInvalidWeb(call[c].fcmRes.errors[j])}}

RefsOf_None(m, invalid) == <<>>

\* refs.push(...(tokenToRefs.get(t) || [])) for every invalid token t
RefsOf(m, invalid) ==
  Flatten([i \in 1..Len(m) |-> IF m[i][1] \in invalid THEN m[i][2] ELSE <<>>])

\* The delete batches of both transports, in the order they are committed.
DeleteBatches(c) ==
  LET docs == Flatten(call[c].tokenDocs) IN
  Chunk(RefsOf(TokenToRefs(docs, "expoPushToken"), InvalidExpoTokens(c)), DeleteBatch)
    \o Chunk(RefsOf(TokenToRefs(docs, "webPushToken"), InvalidWebTokens(c)), DeleteBatch)

\* The deletes, the log line and the return value. failAt = 0: every
\* batch.commit() succeeds; failAt = k: the k-th commit rejects, which ends
\* the call with an internal error after the first k - 1 batches.
SosCleanup(c, failAt) ==
  LET batches == DeleteBatches(c)
      done == IF failAt = 0 THEN Len(batches) ELSE failAt - 1
      gone == UNION {Range(batches[b]) : b \in 1..done}
      expoTokens == ExpoTokensOf(c)
      webTokens == WebTokensOf(c)
  IN
  /\ call[c].pc = "cleanup"
  /\ failAt \in 0..Len(batches)
  /\ devices' = [u \in Accounts |-> [d \in DeviceIds |->
                   IF <<u, d>> \in gone THEN NoDevice ELSE devices[u][d]]]
  /\ call' = [call EXCEPT ![c] = Returned([@ EXCEPT !.deleted = gone],
       IF failAt # 0 THEN HttpsError("internal")
       ELSE [code |-> "ok",
             sent |-> call[c].expoRes.ok + call[c].fcmRes.ok,
             recipients |-> Len(call[c].trustedUids),
             tokens |-> Len(expoTokens) + Len(webTokens),
             expoTokens |-> Len(expoTokens),
             webTokens |-> Len(webTokens),
             errors |-> Len(call[c].expoRes.errors) + Len(call[c].fcmRes.errors)])]
  /\ UNCHANGED <<clock, rateVars, nCalls, events, trustVars, phoneVars, clientVars, fnVars>>

\* --------------------------------------------- the clients of the stores
\* A client stores its SOS event (the document id is new):
\* addDoc(sos_events, {senderUid, message, lat, lon, createdAt}).
PostEvent(uid, eventId, message, lat, lon) ==
  /\ ~events[eventId].exists
  /\ events' = [events EXCEPT ![eventId] = [exists |-> TRUE, senderUid |-> uid,
                                            message |-> message, lat |-> lat, lon |-> lon]]
  /\ UNCHANGED <<clock, rateVars, nCalls, call, devices, trustVars, phoneVars, clientVars, fnVars>>

\* An event without text, at the origin.
CreateEvent(uid, eventId) == PostEvent(uid, eventId, "", 0, 0)

\* registerDeviceForPush(uid): setDoc(devices/{uid}/tokens/{deviceId},
\* {expoPushToken | webPushToken, ...}, {merge: true})
RegisterDevice(uid, deviceId, field, token) ==
  /\ devices[uid][deviceId][field] # token
  /\ devices' = [devices EXCEPT ![uid][deviceId] = [@ EXCEPT !.exists = TRUE, ![field] = token]]
  /\ UNCHANGED <<clock, rateVars, nCalls, call, events, trustVars, phoneVars, clientVars, fnVars>>

\* The Expo push token of an app installation: getExpoPushTokenAsync answers
\* for the device and the project, whoever is signed in.
PushTokenOf(deviceId) == IF deviceId = "d1" THEN "x1" ELSE "x2"

\* login: signInWithEmailAndPassword on an installation nobody is signed in on.
Login(deviceId, uid) ==
  /\ session[deviceId] = NoUid
  /\ session' = [session EXCEPT ![deviceId] = uid]
  /\ UNCHANGED <<clock, rateVars, sosVars, trustVars, phoneVars, fnVars, alarm>>

\* The effect of RootNavigator on user.uid: registerDeviceForPush(user.uid)
\* with the device id kept in AsyncStorage.
RegisterDeviceForPush(deviceId) ==
  /\ session[deviceId] # NoUid
  /\ RegisterDevice(session[deviceId], deviceId, "expoPushToken", PushTokenOf(deviceId))

\* logout: signOut(auth), nothing else.
Logout(deviceId) ==
  /\ session[deviceId] # NoUid
  /\ session' = [session EXCEPT ![deviceId] = NoUid]
  /\ UNCHANGED <<clock, rateVars, sosVars, trustVars, phoneVars, fnVars, alarm>>

\* ------------------------------------------------------------ the alarm
MaxAlarmCalls == 4

AlarmSlots == {1, 2}
NoSound == 0

\* The module state of lib/alarm.ts (sound, vibInterval, running), the Sound
\* objects that play or were unloaded, and the invocations in flight. last
\* is the function called last.
NoAlarm == [running |-> FALSE, sound |-> NoSound, nSounds |-> 0, playing |-> {},
            unloaded |-> {}, vibrating |-> FALSE, last |-> "none", nCalls |-> 0,
            start |-> [i \in AlarmSlots |-> [pc |-> "idle", s |-> NoSound, vibration |-> FALSE]],
            stop |-> [j \in AlarmSlots |-> [pc |-> "idle", s |-> NoSound]]]

\* startAlarm(opts) up to its first await: the running flag, and
\* ensureSoundLoaded up to `if (sound) return sound`.
StartAlarm(i, vibration) ==
  /\ alarm.start[i].pc \in {"idle", "done"}
  /\ alarm.nCalls < MaxAlarmCalls
  /\ alarm' = IF alarm.running
       THEN [alarm EXCEPT !.last = "start", !.nCalls = @ + 1,
                          !.start[i] = [pc |-> "done", s |-> NoSound, vibration |-> vibration]]
       ELSE [alarm EXCEPT !.last = "start", !.nCalls = @ + 1, !.running = TRUE,
                          !.start[i] = [pc |-> "load", s |-> alarm.sound,
                                        vibration |-> vibration]]
  /\ UNCHANGED <<clock, rateVars, sosVars, trustVars, phoneVars, fnVars, session>>

\* ensureSoundLoaded resolves (a new Sound is stored in `sound` when there
\* was none) or rejects; startAlarm goes on to playAsync, or, when the audio
\* failed, to the vibration.
StartLoaded(i, ok) ==
  LET st == alarm.start[i]
      fresh == alarm.nSounds + 1
  IN
  /\ st.pc = "load"
  /\ alarm' =
       IF ~ok
         THEN [alarm EXCEPT !.start[i].pc = "done", !.vibrating = @ \/ st.vibration]
       ELSE IF st.s # NoSound
         THEN [alarm EXCEPT !.start[i].pc = "play"]
       ELSE [alarm EXCEPT !.start[i].pc = "play", !.start[i].s = fresh,
                          !.sound = fresh, !.nSounds = fresh]
  /\ UNCHANGED <<clock, rateVars, sosVars, trustVars, phoneVars, fnVars, session>>

\* playAsync resolves, or rejects on a Sound that was unloaded; then
\* startVibration().
StartPlayed(i) ==
  LET st == alarm.start[i] IN
  /\ st.pc = "play"
  /\ alarm' = [alarm EXCEPT !.start[i].pc = "done",
                            !.playing = IF st.s \in alarm.unloaded THEN @ ELSE @ \cup {st.s},
                            !.vibrating = @ \/ st.vibration]
  /\ UNCHANGED <<clock, rateVars, sosVars, trustVars, phoneVars, fnVars, session>>

\* stopAlarm() up to its first await: the running flag, stopVibration() and
\* the call of sound.stopAsync().
StopAlarm(j) ==
  /\ alarm.stop[j].pc \in {"idle", "done"}
  /\ alarm.nCalls < MaxAlarmCalls
  /\ alarm' = IF ~alarm.running
       THEN [alarm EXCEPT !.last = "stop", !.nCalls = @ + 1,
                          !.stop[j] = [pc |-> "done", s |-> NoSound]]
       ELSE [alarm EXCEPT !.last = "stop", !.nCalls = @ + 1, !.running = FALSE,
                          !.vibrating = FALSE,
                          !.stop[j] = [pc |-> IF alarm.sound = NoSound THEN "done" ELSE "stopping",
                                       s |-> alarm.sound]]
  /\ UNCHANGED <<clock, rateVars, sosVars, trustVars, phoneVars, fnVars, session>>

\* stopAsync resolves, then sound.unloadAsync() is called on what `sound`
\* is now (a null `sound` throws inside the try and `sound = null` follows).
StopStopped(j) ==
  LET sp == alarm.stop[j] IN
  /\ sp.pc = "stopping"
  /\ alarm' = [alarm EXCEPT !.playing = @ \ {sp.s},
                            !.stop[j] = IF alarm.sound = NoSound
                                          THEN [pc |-> "done", s |-> NoSound]
                                          ELSE [pc |-> "unloading", s |-> alarm.sound]]
  /\ UNCHANGED <<clock, rateVars, sosVars, trustVars, phoneVars, fnVars, session>>

\* unloadAsync resolves, then sound = null.
StopUnloaded(j) ==
  LET sp == alarm.stop[j] IN
  /\ sp.pc = "unloading"
  /\ alarm' = [alarm EXCEPT !.playing = @ \ {sp.s}, !.unloaded = @ \cup {sp.s},
                            !.sound = NoSound,
                            !.stop[j] = [pc |-> "done", s |-> NoSound]]
  /\ UNCHANGED <<clock, rateVars, sosVars, trustVars, phoneVars, fnVars, session>>

\* ------------------------------------------------------- the trust graph
Emails == {"a@x", "b@x", "c@x", "zz@x"}
Phones == {"p1", "p2"}
Null == -1

NoEdge == [exists |-> FALSE, status |-> "none", requestedAt |-> Null, respondedAt |-> Null]
NoTrustOp == [op |-> "", ok |-> FALSE, by |-> NoUid, owner |-> NoUid, trusted |-> NoUid,
              status |-> "none"]

\* users.where("email", "==", email).limit(1): the account with that email.
LookupUserByEmail(email) ==
  CASE email = "a@x" -> "a"
    [] email = "b@x" -> "b"
    [] email = "c@x" -> "c"
    [] OTHER -> NoUid

\* phone_index/{phone}.uid, empty when nobody holds the number.
LookupUserByPhone(phone) ==
  IF phone \in Phones /\ phone_index[phone].exists THEN phone_index[phone].uid ELSE NoUid

IsProbablyEmail(raw) == raw \in Emails

\* onSnapshot of incoming/{uid}/requests: the rows the screen shows.
IncomingSnapshot(uid) ==
  /\ inRows' = [inRows EXCEPT ![uid] = {o \in Accounts : incoming[uid][o].exists
                                                         /\ incoming[uid][o].status = "pending"}]
  /\ inRows' # inRows
  /\ UNCHANGED <<clock, rateVars, sosVars, trusted, incoming, trustOp, phoneVars, clientVars, fnVars>>

CreateRequest_NoSelfCheck(ownerUid, identifier, commits) ==
  LET trustedUid == IF IsProbablyEmail(identifier) THEN LookupUserByEmail(identifier)
                    ELSE LookupUserByPhone(identifier)
      edge == [exists |-> TRUE, status |-> "pending", requestedAt |-> clock,
               respondedAt |-> Null]
      written == trustedUid # NoUid /\ commits
  IN
  /\ trustOp' = [op |-> "create", ok |-> written, by |-> ownerUid, owner |-> ownerUid,
                 trusted |-> trustedUid, status |-> "pending"]
  /\ IF written
       THEN /\ trusted' = [trusted EXCEPT ![ownerUid][trustedUid] = edge]
            /\ incoming' = [incoming EXCEPT ![trustedUid][ownerUid] = edge]
       ELSE UNCHANGED <<trusted, incoming>>
  /\ UNCHANGED <<clock, rateVars, sosVars, inRows, phoneVars, clientVars, fnVars>>

\* createRequest of TrustedContactsScreen: lookup, then one batch of two set().
CreateRequest(ownerUid, identifier, commits) ==
  LET trustedUid == IF IsProbablyEmail(identifier) THEN LookupUserByEmail(identifier)
                    ELSE LookupUserByPhone(identifier)
      edge == [exists |-> TRUE, status |-> "pending", requestedAt |-> clock,
               respondedAt |-> Null]
      written == trustedUid # NoUid /\ trustedUid # ownerUid /\ commits
  IN
  /\ trustOp' = [op |-> "create", ok |-> written, by |-> ownerUid, owner |-> ownerUid,
                 trusted |-> trustedUid, status |-> "pending"]
  /\ IF written
       THEN /\ trusted' = [trusted EXCEPT ![ownerUid][trustedUid] = edge]
            /\ incoming' = [incoming EXCEPT ![trustedUid][ownerUid] = edge]
       ELSE UNCHANGED <<trusted, incoming>>
  /\ UNCHANGED <<clock, rateVars, sosVars, inRows, phoneVars, clientVars, fnVars>>

Respond_OneSided(uid, ownerUid, status, commits) ==
  LET written == incoming[uid][ownerUid].exists /\ commits IN
  /\ ownerUid \in inRows[uid]
  /\ trustOp' = [op |-> "respond", ok |-> written, by |-> uid, owner |-> ownerUid,
                 trusted |-> uid, status |-> status]
  /\ IF written
       THEN /\ incoming' = [incoming EXCEPT ![uid][ownerUid].status = status,
                                            ![uid][ownerUid].respondedAt = clock]
            /\ UNCHANGED trusted
       ELSE UNCHANGED <<trusted, incoming>>
  /\ UNCHANGED <<clock, rateVars, sosVars, inRows, phoneVars, clientVars, fnVars>>

\* respond of IncomingRequestsScreen, offered on a row shown as pending: one
\* batch of two update(); update() of a missing document fails the batch.
Respond(uid, ownerUid, status, commits) ==
  LET written == /\ incoming[uid][ownerUid].exists
                 /\ trusted[ownerUid][uid].exists
                 /\ commits
  IN
  /\ ownerUid \in inRows[uid]
  /\ trustOp' = [op |-> "respond", ok |-> written, by |-> uid, owner |-> ownerUid,
                 trusted |-> uid, status |-> status]
  /\ IF written
       THEN /\ incoming' = [incoming EXCEPT ![uid][ownerUid].status = status,
                                            ![uid][ownerUid].respondedAt = clock]
            /\ trusted' = [trusted EXCEPT ![ownerUid][uid].status = status,
                                          ![ownerUid][uid].respondedAt = clock]
       ELSE UNCHANGED <<trusted, incoming>>
  /\ UNCHANGED <<clock, rateVars, sosVars, inRows, phoneVars, clientVars, fnVars>>

CancelRequest_MirrorOnly(ownerUid, trustedUid, commits) ==
  /\ trusted[ownerUid][trustedUid].exists
  /\ trustOp' = [op |-> "cancel", ok |-> commits, by |-> ownerUid, owner |-> ownerUid,
                 trusted |-> trustedUid, status |-> "none"]
  /\ IF commits
       THEN /\ incoming' = [incoming EXCEPT ![trustedUid][ownerUid] = NoEdge]
            /\ UNCHANGED trusted
       ELSE UNCHANGED <<trusted, incoming>>
  /\ UNCHANGED <<clock, rateVars, sosVars, inRows, phoneVars, clientVars, fnVars>>

\* cancelRequest of TrustedContactsScreen (Cancel / Remove): one batch of two delete().
CancelRequest(ownerUid, trustedUid, commits) ==
  /\ trusted[ownerUid][trustedUid].exists
  /\ trustOp' = [op |-> "cancel", ok |-> commits, by |-> ownerUid, owner |-> ownerUid,
                 trusted |-> trustedUid, status |-> "none"]
  /\ IF commits
       THEN /\ trusted' = [trusted EXCEPT ![ownerUid][trustedUid] = NoEdge]
            /\ incoming' = [incoming EXCEPT ![trustedUid][ownerUid] = NoEdge]
       ELSE UNCHANGED <<trusted, incoming>>
  /\ UNCHANGED <<clock, rateVars, sosVars, inRows, phoneVars, clientVars, fnVars>>

\* ------------------------------------------------------ setMyPhoneNumber
PhoneCalls == {1, 2}
NoIndex == [exists |-> FALSE, uid |-> ""]
IdlePhoneCall == [pc |-> "idle", uid |-> NoUid, phone |-> "", held0 |-> "", free0 |-> FALSE,
                  conc |-> {},
                  userVer |-> 0, phoneVer |-> 0, indexExists |-> FALSE, result |-> ""]

\* requireAuth and normalizePhone (a rejected input is the empty phone here).
PhoneBegin(k, uid, phone) ==
  /\ pcall[k].pc \in {"idle", "done"}
  /\ nPhoneCalls < MaxPhoneCalls
  /\ nPhoneCalls' = nPhoneCalls + 1
  /\ pcall' = [j \in PhoneCalls |->
       IF j # k THEN [pcall[j] EXCEPT !.conc = @ \ {k}]
       ELSE IF uid = NoUid
         THEN [IdlePhoneCall EXCEPT !.pc = "done", !.result = "unauthenticated"]
       ELSE IF phone = ""
         THEN [IdlePhoneCall EXCEPT !.pc = "done", !.uid = uid, !.result = "invalid-argument"]
       ELSE [IdlePhoneCall EXCEPT !.pc = "get_user", !.uid = uid, !.phone = phone,
                                  !.held0 = users[uid].phone,
                                  !.free0 = ~phone_index[phone].exists,
                                  !.conc = {i \in PhoneCalls \ {k} :
                                              pcall[i].pc \notin {"idle", "done"}}]]
  /\ UNCHANGED <<clock, rateVars, sosVars, trustVars, clientVars, fnVars, users, phone_index, userVer, phoneVer>>

PhoneAlreadySet_Unchecked(existingPhone, phone) == FALSE

\* existingPhone && existingPhone !== phone
PhoneAlreadySet(existingPhone, phone) == existingPhone # "" /\ existingPhone # phone

\* tx.get(userRef) and the failed-precondition check
PhoneGetUser(k) ==
  LET uid == pcall[k].uid IN
  /\ pcall[k].pc = "get_user"
  /\ pcall' = [pcall EXCEPT ![k] =
       IF PhoneAlreadySet(users[uid].phone, pcall[k].phone)
         THEN [@ EXCEPT !.pc = "done", !.result = "failed-precondition"]
         ELSE [@ EXCEPT !.pc = "get_index", !.userVer = userVer[uid]]]
  /\ UNCHANGED <<clock, rateVars, sosVars, trustVars, clientVars, fnVars, users, phone_index, userVer, phoneVer,
                 nPhoneCalls>>

PhoneInUse_Unchecked(existingUid, uid) == FALSE

\* existingUid && existingUid !== uid
PhoneInUse(existingUid, uid) == existingUid # "" /\ existingUid # uid

\* tx.get(phoneRef), the already-exists check and the two tx.set
PhoneGetIndex(k) ==
  LET phone == pcall[k].phone
      phoneSnap == phone_index[phone]
  IN
  /\ pcall[k].pc = "get_index"
  /\ pcall' = [pcall EXCEPT ![k] =
       IF PhoneInUse(IF phoneSnap.exists THEN phoneSnap.uid ELSE "", pcall[k].uid)
         THEN [@ EXCEPT !.pc = "done", !.result = "already-exists"]
         ELSE [@ EXCEPT !.pc = "commit", !.phoneVer = phoneVer[phone],
                        !.indexExists = phoneSnap.exists]]
  /\ UNCHANGED <<clock, rateVars, sosVars, trustVars, clientVars, fnVars, users, phone_index, userVer, phoneVer,
                 nPhoneCalls>>

PhoneCommit_IndexOnly(k) ==
  LET uid == pcall[k].uid
      phone == pcall[k].phone
  IN
  /\ pcall[k].pc = "commit"
  /\ IF TxValid(pcall[k].userVer, userVer[uid]) /\ TxValid(pcall[k].phoneVer, phoneVer[phone])
       THEN /\ phone_index' = [phone_index EXCEPT ![phone] = [exists |-> TRUE, uid |-> uid]]
            /\ phoneVer' = [phoneVer EXCEPT ![phone] = @ + 1]
            /\ pcall' = [pcall EXCEPT ![k].pc = "done", ![k].result = "ok"]
            /\ UNCHANGED <<users, userVer>>
       ELSE /\ pcall' = [pcall EXCEPT ![k].pc = "get_user"]
            /\ UNCHANGED <<users, phone_index, userVer, phoneVer>>
  /\ UNCHANGED <<clock, rateVars, sosVars, trustVars, clientVars, fnVars, nPhoneCalls>>

\* The commit of the transaction: both documents read must be unchanged,
\* otherwise the transaction function runs again.
PhoneCommit(k) ==
  LET uid == pcall[k].uid
      phone == pcall[k].phone
  IN
  /\ pcall[k].pc = "commit"
  /\ IF TxValid(pcall[k].userVer, userVer[uid]) /\ TxValid(pcall[k].phoneVer, phoneVer[phone])
       THEN /\ phone_index' = [phone_index EXCEPT ![phone] = [exists |-> TRUE, uid |-> uid]]
            /\ users' = [users EXCEPT ![uid].phone = phone]
            /\ userVer' = [userVer EXCEPT ![uid] = @ + 1]
            /\ phoneVer' = [phoneVer EXCEPT ![phone] = @ + 1]
            /\ pcall' = [pcall EXCEPT ![k].pc = "done", ![k].result = "ok"]
       ELSE /\ pcall' = [pcall EXCEPT ![k].pc = "get_user"]
            /\ UNCHANGED <<users, phone_index, userVer, phoneVer>>
  /\ UNCHANGED <<clock, rateVars, sosVars, trustVars, clientVars, fnVars, nPhoneCalls>>

\* ------------------------------------- the transports run on their own
MaxBatches == 2

NoDelivery == [pc |-> "none", transport |-> "", n |-> 0, httpFailed |-> {}, bad |-> {},
               code |-> "", netFail |-> 0, batches |-> <<>>, deleted |-> {},
               res |-> NoSendRes]

FailureCodes(transport) == (IF transport = "expo" THEN ExpoCodes ELSE FcmCodes) \ {"ok"}

\* The message counts tried: none, one, and full batches with and without
\* one more message.
DeliverySizes(size) ==
  {0, 1} \cup {k * size : k \in 1..MaxBatches} \cup {k * size + 1 : k \in 1..MaxBatches}

\* The tokens at the ends of the batches, the ones a transport may report.
EdgeTokens(n, size) == {1, size, size + 1, n} \cap 1..n

\* A call of one transport function with n messages, to the tokens 1..n:
\* the batches in httpFailed are answered with a non-2xx status (Expo only),
\* the tokens in bad with the failure code, and when netFail is k the k-th
\* request rejects.
DeliveryCall(transport, n, httpFailed, bad, code, netFail) ==
  /\ delivery.pc = "none"
  /\ delivery' = [pc |-> "called", transport |-> transport, n |-> n,
                  httpFailed |-> httpFailed, bad |-> bad, code |-> code,
                  netFail |-> netFail, batches |-> <<>>, deleted |-> {}, res |-> NoSendRes]
  /\ UNCHANGED <<clock, rateVars, sosVars, trustVars, phoneVars, clientVars>>

DeliveryTokens == [i \in 1..delivery.n |-> i]
DeliveryAnswer == [t \in 1..delivery.n |-> IF t \in delivery.bad THEN delivery.code ELSE "ok"]

\* The requests made of the batches: all of them, or those up to the one
\* that rejects.
Posted(batches) ==
  IF delivery.netFail = 0 THEN batches ELSE SubSeq(batches, 1, delivery.netFail)

\* sendExpoPush(messages) run to its return or to the exception of a fetch.
ExpoPushRun ==
  /\ delivery.pc = "called" /\ delivery.transport = "expo"
  /\ delivery' = IF delivery.netFail # 0
                   THEN [delivery EXCEPT !.pc = "thrown",
                           !.batches = Posted(Chunk(DeliveryTokens, ExpoBatch))]
                   ELSE [delivery EXCEPT !.pc = "returned",
                           !.batches = Posted(Chunk(DeliveryTokens, ExpoBatch)),
                           !.res = SendExpoPush(DeliveryTokens, delivery.httpFailed,
                                                DeliveryAnswer)]
  /\ UNCHANGED <<clock, rateVars, sosVars, trustVars, phoneVars, clientVars>>

\* sendFcmWebPush({tokens, eventId}) run to its return or to the exception
\* of a sendEachForMulticast.
FcmPushRun ==
  /\ delivery.pc = "called" /\ delivery.transport = "fcm"
  /\ delivery' = IF delivery.netFail # 0
                   THEN [delivery EXCEPT !.pc = "thrown",
                           !.batches = Posted(Chunk(DeliveryTokens, FcmBatch))]
                   ELSE [delivery EXCEPT !.pc = "returned",
                           !.batches = Posted(Chunk(DeliveryTokens, FcmBatch)),
                           !.res = SendFcmWebPush(DeliveryTokens, DeliveryAnswer)]
  /\ UNCHANGED <<clock, rateVars, sosVars, trustVars, phoneVars, clientVars>>

\* The delete loop of the cleanup on n record references: one write batch
\* per chunk, to the last commit or to the one that rejects.
DeleteRun ==
  /\ delivery.pc = "called" /\ delivery.transport = "delete"
  /\ delivery' = [delivery EXCEPT !.pc = IF delivery.netFail # 0 THEN "thrown" ELSE "returned",
                                  !.batches = Posted(Chunk(DeliveryTokens, DeleteBatch))]
  /\ UNCHANGED <<clock, rateVars, sosVars, trustVars, phoneVars, clientVars>>

\* ------------------------------------- the Expo-only functions (part_016)
\* The errors one batch adds in the Expo-only sendExpoPush: a ticket that is
\* not ok is stored with its index in the batch.
ExpoOnlyBatchErrors(batch, httpOk, answer) ==
  IF ~httpOk THEN << [type |-> "http_error", index |-> Null, code |-> ""] >>
  ELSE LET bad == SelectSeq([i \in 1..Len(batch) |-> i], LAMBDA i : answer[batch[i]] # "ok")
       IN [j \in 1..Len(bad) |->
             [type |-> "expo_error", index |-> bad[j] - 1, code |-> answer[batch[bad[j]]]]]

\* sendExpoPush(messages) of the Expo-only functions
ExpoOnlySendExpoPush(messages, httpFailed, answer) ==
  LET batches == Chunk(messages, ExpoBatch) IN
  [ok |-> SumSeq([b \in 1..Len(batches) |->
                    ExpoBatchOk(batches[b], b \notin httpFailed, answer)]),
   errors |-> Flatten([b \in 1..Len(batches) |->
                    ExpoOnlyBatchErrors(batches[b], b \notin httpFailed, answer)])]

\* invalidTokens: uniqueTokens[idx] for every error with DeviceNotRegistered
\* or InvalidCredentials and an index inside uniqueTokens.
ExpoOnlyInvalidTokens(uniqueTokens, errors) ==
  {uniqueTokens[errors[j].index + 1] :
     j \in {k \in 1..Len(errors) :
              /\ errors[k].code \in {"DeviceNotRegistered", "InvalidCredentials"}
              /\ errors[k].index >= 0 /\ errors[k].index < Len(uniqueTokens)}}

\* The Expo-only sendSos from its sendExpoPush on, with the tokens 1..n each
\* held by the record of the same number: the send and the cleanup.
ExpoOnlySosRun ==
  LET res == ExpoOnlySendExpoPush(DeliveryTokens, delivery.httpFailed, DeliveryAnswer) IN
  /\ delivery.pc = "called" /\ delivery.transport = "expo-only"
  /\ delivery' = IF delivery.netFail # 0
                   THEN [delivery EXCEPT !.pc = "thrown"]
                   ELSE [delivery EXCEPT !.pc = "returned", !.res = res,
                           !.deleted = ExpoOnlyInvalidTokens(DeliveryTokens, res.errors)]
  /\ UNCHANGED <<clock, rateVars, sosVars, trustVars, phoneVars, clientVars>>

\* ------------------------------------------------------------------ specs
Init ==
  /\ clock = 0
  /\ rate = [u \in Accounts |-> NoRate]
  /\ rateVer = [u \in Accounts |-> 0]
  /\ passed = [u \in Accounts |-> 0]
  /\ passLog = [u \in Accounts |-> <<>>]
  /\ nCalls = 0
  /\ call = [c \in Calls |-> IdleCall]
  /\ events = [e \in EventIds |-> NoEvent]
  /\ devices = [u \in Accounts |-> [d \in DeviceIds |-> NoDevice]]
  /\ trusted = [o \in Accounts |-> [t \in Accounts |-> NoEdge]]
  /\ incoming = [t \in Accounts |-> [o \in Accounts |-> NoEdge]]
  /\ inRows = [t \in Accounts |-> {}]
  /\ trustOp = NoTrustOp
  /\ users = [u \in Accounts |-> [phone |-> ""]]
  /\ phone_index = [p \in Phones |-> NoIndex]
  /\ userVer = [u \in Accounts |-> 0]
  /\ phoneVer = [p \in Phones |-> 0]
  /\ nPhoneCalls = 0
  /\ pcall = [k \in PhoneCalls |-> IdlePhoneCall]
  /\ session = [d \in DeviceIds |-> NoUid]
  /\ alarm = NoAlarm
  /\ delivery = NoDelivery

RateCallers == {"a"}
RateEvents == {"e1"}

NextRate ==
  \/ Tick
  \/ Jitter
  \/ \E c \in Calls, u \in RateCallers, e \in RateEvents : SosBeginCounted(c, u, e)
  \/ \E c \in Calls : SosRateGet(c)
  \/ \E c \in Calls : SosRateCommit(c)
  \/ \E c \in Calls : SosEvent(c)

SpecRate == Init /\ [][NextRate]_vars

\* The windows of one sender over time: its calls, one at a time, with the
\* timestamp of every call that passed kept in passLog.
NextWindow ==
  \/ Tick
  \/ Jitter
  \/ \E u \in RateCallers, e \in RateEvents : SosBeginCounted(1, u, e)
  \/ SosRateGet(1)
  \/ SosRateCommitLogged(1)
  \/ SosEvent(1)

SpecWindow == Init /\ [][NextWindow]_vars

\* The quota: a, who has no contact, calls for its own event (stored or not
\* yet) and for the event of b.
NextQuota ==
  \/ Tick
  \/ CreateEvent("a", "e1")
  \/ CreateEvent("b", "e2")
  \/ \E e \in EventIds : SosBeginCounted(1, "a", e)
  \/ SosRateGet(1)
  \/ SosRateCommitLogged(1)
  \/ SosEvent(1)
  \/ SosContacts(1)

SpecQuota == Init /\ [][NextQuota]_vars

TrustParties == {"a", "b"}
TrustIdentifiers == {"a@x", "b@x", "zz@x", "p1"}

NextTrust ==
  \/ Tick
  \/ \E u \in TrustParties : IncomingSnapshot(u)
  \/ \E o \in TrustParties, i \in TrustIdentifiers, ok \in BOOLEAN : CreateRequest(o, i, ok)
  \/ \E u \in TrustParties, o \in TrustParties, st \in {"accepted", "rejected"}, ok \in BOOLEAN :
        Respond(u, o, st, ok)
  \/ \E o \in TrustParties, t \in TrustParties, ok \in BOOLEAN : CancelRequest(o, t, ok)

SpecTrust == Init /\ [][NextTrust]_vars

PhoneCallers == {"a", "b", "c"}

NextPhone ==
  \/ \E k \in PhoneCalls, u \in PhoneCallers \cup {NoUid}, p \in Phones \cup {""} : PhoneBegin(k, u, p)
  \/ \E k \in PhoneCalls : PhoneGetUser(k)
  \/ \E k \in PhoneCalls : PhoneGetIndex(k)
  \/ \E k \in PhoneCalls : PhoneCommit(k)

SpecPhone == Init /\ [][NextPhone]_vars

\* Authorization: the edges between a and b change while a dispatches the
\* event of b.
AuthParties == {"a", "b"}
AuthIdentifiers == {"a@x", "b@x"}

NextAuth ==
  \/ \E o \in AuthParties, i \in AuthIdentifiers : CreateRequest(o, i, TRUE)
  \/ \E u \in AuthParties : IncomingSnapshot(u)
  \/ \E u \in AuthParties, o \in AuthParties, st \in {"accepted", "rejected"} :
        Respond(u, o, st, TRUE)
  \/ \E o \in AuthParties, t \in AuthParties : CancelRequest(o, t, TRUE)
  \/ CreateEvent("b", "e2")
  \/ \E u \in {"a", NoUid}, e \in {"e2", ""} : SosBegin(1, u, e) /\ UNCHANGED nCalls
  \/ SosRateGet(1)
  \/ SosRateCommit(1)
  \/ SosEvent(1)

SpecAuth == Init /\ [][NextAuth]_vars

\* Consent: the edges of a towards b and c change while a dispatches its
\* event; every push is accepted by the transport.
ConsentRequests == {<<"a", "b@x">>, <<"a", "c@x">>}
ConsentEdges == {<<"a", "b">>, <<"a", "c">>}
ConsentDevices == {<<"b", "d1", "expoPushToken", "x1">>, <<"c", "d2", "expoPushToken", "x2">>}
AllOk(tokens) == [t \in Range(tokens) |-> "ok"]

NextConsent ==
  \/ \E r \in ConsentRequests : CreateRequest(r[1], r[2], TRUE)
  \/ \E e \in ConsentEdges : IncomingSnapshot(e[2])
  \/ \E e \in ConsentEdges, st \in {"accepted", "rejected"} : Respond(e[2], e[1], st, TRUE)
  \/ \E e \in ConsentEdges : CancelRequest(e[1], e[2], TRUE)
  \/ CreateEvent("a", "e1")
  \/ \E r \in ConsentDevices : RegisterDevice(r[1], r[2], r[3], r[4])
  \/ SosBegin(1, "a", "e1") /\ UNCHANGED nCalls
  \/ SosRateGet(1)
  \/ SosRateCommit(1)
  \/ SosEvent(1)
  \/ SosContacts(1)
  \/ \E t \in Accounts : SosTokens(1, t)
  \/ SosSendExpo(1, {}, AllOk(ExpoTokensOf(1)))
  \/ SosSendFcm(1, AllOk(WebTokensOf(1)))
  \/ SosCleanup(1, 0)

SpecConsent == Init /\ [][NextConsent]_vars

\* Delivery: b is the contact of a, with two device records that may hold
\* the same token; the transports answer each token with any of their codes.
SendDevices == {<<"b", "d1", "expoPushToken", "x1">>, <<"b", "d1", "webPushToken", "w1">>,
                <<"b", "d2", "expoPushToken", "x1">>, <<"b", "d2", "expoPushToken", "x2">>}

NextSend ==
  \/ CreateRequest("a", "b@x", TRUE)
  \/ IncomingSnapshot("b")
  \/ \E st \in {"accepted", "rejected"} : Respond("b", "a", st, TRUE)
  \/ CreateEvent("a", "e1")
  \/ \E r \in SendDevices : RegisterDevice(r[1], r[2], r[3], r[4])
  \/ SosBegin(1, "a", "e1") /\ UNCHANGED nCalls
  \/ SosRateGet(1)
  \/ SosRateCommit(1)
  \/ SosEvent(1)
  \/ SosContacts(1)
  \/ \E t \in Accounts : SosTokens(1, t)
  \/ \E h \in SUBSET {1}, ans \in [Range(ExpoTokensOf(1)) -> ExpoCodes] : SosSendExpo(1, h, ans)
  \/ \E ans \in [Range(WebTokensOf(1)) -> FcmCodes] : SosSendFcm(1, ans)
  \/ \E f \in 0..2 : SosCleanup(1, f)
  \/ SosThrows(1)

SpecSend == Init /\ [][NextSend]_vars

\* The preconditions: a calls for its own event, for the event of b, for an
\* event that is not stored, without an event id or without being signed in,
\* again and again, while b answers its request and registers a device.
NextPrecond ==
  \/ CreateRequest("a", "b@x", TRUE)
  \/ IncomingSnapshot("b")
  \/ \E st \in {"accepted", "rejected"} : Respond("b", "a", st, TRUE)
  \/ CreateEvent("a", "e1")
  \/ CreateEvent("b", "e2")
  \/ RegisterDevice("b", "d1", "expoPushToken", "x1")
  \/ \E u \in {"a", NoUid}, e \in {"e1", "e2", ""} : SosBegin(1, u, e) /\ UNCHANGED nCalls
  \/ SosRateGet(1)
  \/ SosRateCommit(1)
  \/ SosEvent(1)
  \/ SosContacts(1)
  \/ \E t \in Accounts : SosTokens(1, t)
  \/ \E ans \in [Range(ExpoTokensOf(1)) -> ExpoCodes] : SosSendExpo(1, {}, ans)
  \/ SosSendFcm(1, AllOk(WebTokensOf(1)))
  \/ \E f \in 0..1 : SosCleanup(1, f)
  \/ SosThrows(1)

SpecPrecond == Init /\ [][NextPrecond]_vars

\* The payloads: a dispatches its event to b, whose two installations hold an
\* Expo and a web token; the text and the position of the event vary.
EventTexts == {"help", "fire at home"}
EventCoords == {0, 32}
PayloadDevices == {<<"b", "d1", "expoPushToken", "x1">>, <<"b", "d2", "webPushToken", "w1">>}

NextPayload ==
  \/ CreateRequest("a", "b@x", TRUE)
  \/ IncomingSnapshot("b")
  \/ Respond("b", "a", "accepted", TRUE)
  \/ \E m \in EventTexts, la \in EventCoords, lo \in EventCoords : PostEvent("a", "e1", m, la, lo)
  \/ \E r \in PayloadDevices : RegisterDevice(r[1], r[2], r[3], r[4])
  \/ SosBegin(1, "a", "e1") /\ UNCHANGED nCalls
  \/ SosRateGet(1)
  \/ SosRateCommit(1)
  \/ SosEvent(1)
  \/ SosContacts(1)
  \/ \E t \in Accounts : SosTokens(1, t)
  \/ SosSendExpo(1, {}, AllOk(ExpoTokensOf(1)))
  \/ SosSendFcm(1, AllOk(WebTokensOf(1)))
  \/ SosCleanup(1, 0)

SpecPayload == Init /\ [][NextPayload]_vars

\* The transports on their own, on message lists of several batches.
NextDeliver ==
  \/ \E n \in DeliverySizes(ExpoBatch) :
       \E h \in SUBSET (1..((n + ExpoBatch - 1) \div ExpoBatch)),
          bad \in SUBSET EdgeTokens(n, ExpoBatch),
          code \in FailureCodes("expo"),
          k \in 0..((n + ExpoBatch - 1) \div ExpoBatch) :
         DeliveryCall("expo", n, h, bad, code, k)
  \/ \E n \in DeliverySizes(FcmBatch) :
       \E bad \in SUBSET EdgeTokens(n, FcmBatch),
          code \in FailureCodes("fcm"),
          k \in 0..((n + FcmBatch - 1) \div FcmBatch) :
         DeliveryCall("fcm", n, {}, bad, code, k)
  \/ ExpoPushRun
  \/ FcmPushRun

SpecDeliver == Init /\ [][NextDeliver]_vars

\* chunk at its three call sites: the two transports and the delete loop.
NextChunk ==
  \/ NextDeliver
  \/ \E n \in DeliverySizes(DeleteBatch) :
       \E k \in 0..((n + DeleteBatch - 1) \div DeleteBatch) :
         DeliveryCall("delete", n, {}, {}, "", k)
  \/ DeleteRun

SpecChunk == Init /\ [][NextChunk]_vars

\* The Expo-only sendSos on token lists of several batches.
NextExpoOnly ==
  \/ \E n \in DeliverySizes(ExpoBatch) :
       \E h \in SUBSET (1..((n + ExpoBatch - 1) \div ExpoBatch)),
          bad \in SUBSET EdgeTokens(n, ExpoBatch),
          code \in FailureCodes("expo"),
          k \in 0..((n + ExpoBatch - 1) \div ExpoBatch) :
         DeliveryCall("expo-only", n, h, bad, code, k)
  \/ ExpoOnlySosRun

SpecExpoOnly == Init /\ [][NextExpoOnly]_vars

\* The alarm: the Incoming SOS screen starts it when it opens and stops it
\* on Stop Alarm and when it is left.
NextAlarm ==
  \/ \E i \in AlarmSlots, v \in BOOLEAN : StartAlarm(i, v)
  \/ \E i \in AlarmSlots, ok \in BOOLEAN : StartLoaded(i, ok)
  \/ \E i \in AlarmSlots : StartPlayed(i)
  \/ \E j \in AlarmSlots : StopAlarm(j)
  \/ \E j \in AlarmSlots : StopStopped(j)
  \/ \E j \in AlarmSlots : StopUnloaded(j)

SpecAlarm == Init /\ [][NextAlarm]_vars

\* The device registry: several accounts sign in and out on two installations.
NextDevice ==
  \/ \E d \in DeviceIds, u \in Accounts : Login(d, u)
  \/ \E d \in DeviceIds : RegisterDeviceForPush(d)
  \/ \E d \in DeviceIds : Logout(d)

SpecDevice == Init /\ [][NextDevice]_vars

\* ----------------------------------------------------------------- claims

\* The step in which call c leaves the rate-limit step, passing or failing.
RateDecided(c) ==
  \/ call[c].pc = "rate_get" /\ call'[c].pc = "done"
  \/ call[c].pc = "rate_commit" /\ call'[c].pc = "event"

RatePassed(c) == call'[c].pc = "event"
RateRejected(c) == call'[c].pc = "done" /\ call'[c].result.code = "resource-exhausted"

\* C1: a call on a sender without a record passes and opens a window at its
\* own timestamp with count 1; a call less than 30 minutes after windowStart
\* passes and increments while fewer than 3 calls passed in the window, and
\* otherwise fails with resource-exhausted leaving {windowStart, count}
\* unchanged; a call at or after windowStart + 30 min passes and stores
\* count = 1 with windowStart equal to its own timestamp.
C1_RateWindow ==
  [][\A c \in Calls : RateDecided(c) =>
       LET u == call[c].uid
           r == rate[u]
           n == call[c].now
       IN IF ~r.exists
            THEN RatePassed(c) /\ rate'[u] = [exists |-> TRUE, windowStart |-> n, count |-> 1]
          ELSE IF n - r.windowStart < 1800000
            THEN IF r.count < 3
                   THEN RatePassed(c)
                        /\ rate'[u] = [exists |-> TRUE, windowStart |-> r.windowStart,
                                       count |-> r.count + 1]
                   ELSE RateRejected(c) /\ rate'[u] = r
          ELSE RatePassed(c) /\ rate'[u] = [exists |-> TRUE, windowStart |-> n, count |-> 1]]_vars

\* A call was rejected in a full window, and a later call, made once the
\* window had elapsed, has reset the record to count 1 at its own timestamp.
C1_Witness ==
  \E c, d \in Calls :
    /\ call[c].pc = "done" /\ call[c].result.code = "resource-exhausted"
    /\ call[c].snap.count = 3
    /\ call[d].pc \in {"event", "done"} /\ call[d].result.code # "resource-exhausted"
    /\ call[d].uid = call[c].uid
    /\ call[d].now >= call[c].snap.windowStart + 1800000
    /\ rate[call[d].uid] = [exists |-> TRUE, windowStart |-> call[d].now, count |-> 1]

\* C2: under every interleaving of concurrent calls of one sender, the stored
\* count equals the number of calls that passed the rate step in the current
\* window (no lost increment) and never exceeds 3.
C2_RateAtomic ==
  \A u \in Accounts :
    /\ rate[u].count = passed[u]
    /\ rate[u].count <= 3
    /\ rate[u].exists <=> passed[u] > 0

\* A call lost a commit race, was re-run, and the window is now full.
C2_Witness ==
  \E c \in Calls :
    /\ call[c].attempts >= 2
    /\ call[c].pc \in {"event", "done"}
    /\ rate[call[c].uid].count = 3
    /\ passed[call[c].uid] = 3

\* The owner's record and the mirror record of every pair agree.
MirrorInv ==
  \A o \in Accounts, t \in Accounts :
    /\ trusted[o][t].exists = incoming[t][o].exists
    /\ trusted[o][t].status = incoming[t][o].status
    /\ trusted[o][t].requestedAt = incoming[t][o].requestedAt
    /\ trusted[o][t].respondedAt = incoming[t][o].respondedAt

\* C5: after any interleaving of createRequest, respond and cancelRequest the
\* owner's record trusted/{owner}/contacts/{trusted} and the mirror record
\* incoming/{trusted}/requests/{owner} both exist with the same status,
\* requestedAt and respondedAt, or are both absent; and an operation that
\* failed left both records as they were.
C5_Mirror ==
  /\ []MirrorInv
  /\ [][(trustOp' # trustOp /\ ~trustOp'.ok) => UNCHANGED <<trusted, incoming>>]_vars

\* An edge requested at one time and answered later is stored on both sides.
C5_Witness ==
  \E o \in Accounts, t \in Accounts :
    /\ trusted[o][t].exists /\ incoming[t][o].exists
    /\ trusted[o][t].status = "accepted"
    /\ trusted[o][t].respondedAt > trusted[o][t].requestedAt
    /\ trustOp = [op |-> "respond", ok |-> TRUE, by |-> t, owner |-> o, trusted |-> t,
                  status |-> "accepted"]

\* Two finished calls of different accounts that ran concurrently for one
\* number nobody held when either of them started.
PhoneRace(k1, k2) ==
  /\ k1 # k2
  /\ pcall[k1].pc = "done" /\ pcall[k2].pc = "done"
  /\ pcall[k1].phone # "" /\ pcall[k1].phone = pcall[k2].phone
  /\ pcall[k1].uid # pcall[k2].uid
  /\ pcall[k1].free0 /\ pcall[k2].free0
  /\ (k1 \in pcall[k2].conc \/ k2 \in pcall[k1].conc)

\* k1 won the race against k2: it succeeded, k2 failed with already-exists,
\* the index maps the number to k1's account and only that account holds it.
PhoneWonBy(k1, k2) ==
  /\ pcall[k1].result = "ok" /\ pcall[k2].result = "already-exists"
  /\ phone_index[pcall[k1].phone] = [exists |-> TRUE, uid |-> pcall[k1].uid]
  /\ users[pcall[k1].uid].phone = pcall[k1].phone
  /\ users[pcall[k2].uid].phone # pcall[k1].phone

\* C6 as stated: of two concurrent calls of different accounts for a number
\* nobody holds, exactly one succeeds and the other fails with already-exists.
C6_PhoneRace_AsStated ==
  \A k1, k2 \in PhoneCalls :
    PhoneRace(k1, k2) => (PhoneWonBy(k1, k2) \/ PhoneWonBy(k2, k1))

\* C6, amended: the same, when neither call is refused with
\* failed-precondition (its caller holding a different phone) and the number
\* does not go to a third account.
C6_PhoneRace ==
  \A k1, k2 \in PhoneCalls :
    ( /\ PhoneRace(k1, k2)
      /\ pcall[k1].result # "failed-precondition"
      /\ pcall[k2].result # "failed-precondition"
      /\ phone_index[pcall[k1].phone].uid \in {"", pcall[k1].uid, pcall[k2].uid} )
    => (PhoneWonBy(k1, k2) \/ PhoneWonBy(k2, k1))

\* The race was run to its end and one of the two calls won it.
C6_Witness ==
  \E k1, k2 \in PhoneCalls : PhoneRace(k1, k2) /\ PhoneWonBy(k1, k2)

\* The steps of call k
PhoneStep(k) == pcall'[k].pc # pcall[k].pc

\* C7: a call by an account whose user record already holds a different
\* phone fails with failed-precondition and changes neither the user records
\* nor phone_index; a phone that is set never changes; a call with the number
\* the account already holds does not fail and keeps the mapping.
C7_PhoneImmutable ==
  [][/\ \A u \in Accounts : users[u].phone # "" => users'[u].phone = users[u].phone
     /\ \A k \in PhoneCalls :
          (PhoneStep(k) /\ pcall[k].pc # "idle" /\ pcall[k].pc # "done"
             /\ pcall[k].held0 # "") =>
            IF pcall[k].held0 # pcall[k].phone
              THEN /\ UNCHANGED <<users, phone_index>>
                   /\ pcall'[k].pc = "done" /\ pcall'[k].result = "failed-precondition"
              ELSE /\ users' = users
                   /\ phone_index'[pcall[k].phone] = [exists |-> TRUE, uid |-> pcall[k].uid]
                   /\ pcall'[k].pc = "done" => pcall'[k].result = "ok"]_vars

\* One account was refused a second number and then confirmed the first again.
C7_Witness ==
  \E k1, k2 \in PhoneCalls :
    /\ pcall[k1].pc = "done" /\ pcall[k1].result = "failed-precondition"
    /\ pcall[k1].held0 # "" /\ pcall[k1].held0 # pcall[k1].phone
    /\ pcall[k2].pc = "done" /\ pcall[k2].result = "ok"
    /\ pcall[k2].uid = pcall[k1].uid /\ pcall[k2].held0 = pcall[k2].phone
    /\ users[pcall[k1].uid].phone = pcall[k1].held0

\* The call is past its rate-limit step and its event lookup.
Dispatching(c) == call[c].pc \in {"contacts", "tokens", "expo", "fcm", "cleanup"}

\* C3 as stated: an authenticated call for an existing event of another
\* sender always fails with permission-denied.
C3_Ownership_AsStated ==
  \A c \in Calls :
    (call[c].pc = "done" /\ call[c].foreign0) => call[c].result.code = "permission-denied"

\* C3, amended: an authenticated call for an existing event of another sender
\* never dispatches; it fails with permission-denied whenever it passes the
\* rate-limit step (and with resource-exhausted when it does not), whatever
\* the edges between the two accounts are.
C3_Ownership ==
  \A c \in Calls :
    call[c].foreign0 =>
      /\ ~Dispatching(c)
      /\ (call[c].pc = "done" /\ call[c].result.code # "resource-exhausted") =>
           call[c].result.code = "permission-denied"

\* The caller was refused the event of an account with which it has accepted
\* edges in both directions.
C3_Witness ==
  \E c \in Calls :
    /\ call[c].pc = "done" /\ call[c].foreign0
    /\ call[c].result.code = "permission-denied"
    /\ trusted[call[c].uid][events[call[c].eventId].senderUid].status = "accepted"
    /\ trusted[events[call[c].eventId].senderUid][call[c].uid].status = "accepted"

ZeroResult == [code |-> "ok", sent |-> 0, recipients |-> 0, tokens |-> 0,
               expoTokens |-> 0, webTokens |-> 0, errors |-> 0]

Count(q, x) == Cardinality({i \in 1..Len(q) : q[i] = x})

\* The tokens one field of the records read by call c holds.
HeldTokens(c, field) ==
  {Flatten(call[c].tokenDocs)[i][field] : i \in 1..Len(Flatten(call[c].tokenDocs))} \ {""}

\* The records read by call c that hold token t in a field.
Holders(c, field, t) ==
  {Flatten(call[c].tokenDocs)[i].ref :
     i \in {j \in 1..Len(Flatten(call[c].tokenDocs)) : Flatten(call[c].tokenDocs)[j][field] = t}}

\* The tokens a transport answered with one of the codes.
Answered(res, codes) ==
  {res.errors[i].token : i \in {j \in 1..Len(res.errors) : res.errors[j].code \in codes}} \ {""}

ExpoPermanent == {"DeviceNotRegistered", "InvalidCredentials"}
FcmPermanent == {"messaging/registration-token-not-registered",
                 "messaging/invalid-registration-token"}

\* C9: a token string held by several of the device records read by a call
\* gets exactly one push attempt on its transport, and when the transport
\* reports it permanently invalid, a call that returns has deleted every
\* record that held it.
C9_Dedup ==
  [][\A c \in Calls :
       /\ (call[c].pc = "expo" /\ call'[c].pc = "fcm") =>
            \A t \in HeldTokens(c, "expoPushToken") : Count(call'[c].sentExpo, t) = 1
       /\ (call[c].pc = "fcm" /\ call'[c].pc = "cleanup") =>
            \A t \in HeldTokens(c, "webPushToken") : Count(call'[c].sentWeb, t) = 1
       /\ (call[c].pc = "cleanup" /\ call'[c].pc = "done" /\ call'[c].result.code = "ok") =>
            /\ \A t \in Answered(call[c].expoRes, ExpoPermanent) :
                 \A r \in Holders(c, "expoPushToken", t) : ~devices'[r[1]][r[2]].exists
            /\ \A t \in Answered(call[c].fcmRes, FcmPermanent) :
                 \A r \in Holders(c, "webPushToken", t) : ~devices'[r[1]][r[2]].exists]_vars

\* Two records held the one token that was pushed, once, and both are gone.
C9_Witness ==
  \E c \in Calls :
    /\ call[c].pc = "done" /\ call[c].result.code = "ok"
    /\ call[c].result.expoTokens = 1 /\ call[c].result.webTokens = 0
    /\ call[c].sentExpo = <<"x1">>
    /\ call[c].deleted = {<<"b", "d1">>, <<"b", "d2">>}
    /\ ~devices["b"]["d1"].exists /\ ~devices["b"]["d2"].exists

\* The tokens stored in the registry.
Registry(devs, field) ==
  {devs[r[1]][r[2]][field] : r \in {q \in Accounts \X DeviceIds : devs[q[1]][q[2]].exists}} \ {""}

\* C10: after a call that returns, every record that held a token answered
\* with a permanent-invalid code is deleted, and every token answered with
\* another failure code, or sent in a batch refused as a whole, is still in
\* the registry if it was there before the cleanup.
C10_Cleanup ==
  [][\A c \in Calls :
       (call[c].pc = "cleanup" /\ call'[c].pc = "done" /\ call'[c].result.code = "ok") =>
         /\ \A t \in Answered(call[c].expoRes, ExpoPermanent) :
              \A r \in Holders(c, "expoPushToken", t) : ~devices'[r[1]][r[2]].exists
         /\ \A t \in Answered(call[c].fcmRes, FcmPermanent) :
              \A r \in Holders(c, "webPushToken", t) : ~devices'[r[1]][r[2]].exists
         /\ \A t \in Answered(call[c].expoRes, ExpoCodes \ ExpoPermanent) \cup call[c].refused :
              t \in Registry(devices, "expoPushToken") => t \in Registry(devices', "expoPushToken")
         /\ \A t \in Answered(call[c].fcmRes, FcmCodes \ FcmPermanent) :
              t \in Registry(devices, "webPushToken") => t \in Registry(devices', "webPushToken")]_vars

\* C11: when the commit of a token-deletion batch fails, the call does not
\* fail: it still returns the dispatch result {sent, recipients, tokens,
\* expoTokens, webTokens, errors} of the pushes already sent.
C11_CleanupSwallowed ==
  [][\A c \in Calls :
       (call[c].pc = "cleanup" /\ call'[c].pc = "done") =>
         /\ call'[c].result.code = "ok"
         /\ call'[c].result.sent = call[c].expoRes.ok + call[c].fcmRes.ok
         /\ call'[c].result.recipients = Len(call[c].trustedUids)
         /\ call'[c].result.errors = Len(call[c].expoRes.errors) + Len(call[c].fcmRes.errors)]_vars

\* The accounts under which the registry stores a token string.
AccountsHolding(tok) ==
  {u \in Accounts : \E d \in DeviceIds :
     devices[u][d].exists /\ tok \in {devices[u][d].expoPushToken, devices[u][d].webPushToken}}

\* C20: after any sequence of login, registerDeviceForPush and logout by
\* several accounts on the same installation, a push token string is stored
\* in the registry under at most one account.
C20_OneAccountPerToken ==
  \A d \in DeviceIds : Cardinality(AccountsHolding(PushTokenOf(d))) <= 1

\* The batch of a transport that carries the i-th message.
BatchOf(i, size) == (i - 1) \div size + 1

\* The tokens of the run that were posted in a batch the transport took and
\* were answered by it with a failure.
ReportedBad ==
  {t \in delivery.bad \cap 1..delivery.n :
     BatchOf(t, IF delivery.transport = "expo" THEN 100 ELSE 500) \notin delivery.httpFailed}

\* C12: failures a transport reports (an error entry for a token, a non-2xx
\* status for a whole Expo batch) never make the send fail: every batch is
\* still sent, each failure is one entry of errors, every other message is
\* counted in ok, and the function returns its result.
C12_DeliveryNotFatal ==
  (delivery.pc \in {"returned", "thrown"} /\ delivery.netFail = 0) =>
    /\ delivery.pc = "returned"
    /\ Len(delivery.res.errors) = Cardinality(delivery.httpFailed) + Cardinality(ReportedBad)
    /\ {e.token : e \in {x \in Range(delivery.res.errors) : x.type # "http_error"}} = ReportedBad
    /\ delivery.res.ok =
         Cardinality({t \in 1..delivery.n :
                        /\ t \notin delivery.bad
                        /\ BatchOf(t, IF delivery.transport = "expo" THEN 100 ELSE 500)
                             \notin delivery.httpFailed})

\* Of three Expo batches the second was refused and a ticket of the first
\* was an error; the third was still sent and counted.
C12_Witness ==
  /\ delivery.pc = "returned" /\ delivery.transport = "expo"
  /\ delivery.n = 201 /\ delivery.httpFailed = {2} /\ delivery.bad = {1}
  /\ delivery.res.ok = 100 /\ Len(delivery.res.errors) = 2

\* C13: the payloads of a dispatch are determined by the event id and the
\* recipient token alone: whatever the message, lat and lon of the event are,
\* the Expo message of token t is {to: t, title, body: "Tap to view
\* location", sound, priority, channelId, data: {type: "sos", eventId}} and
\* the FCM message {type: "sos", eventId, title, body} with high urgency.
C13_PayloadOpaque ==
  \A c \in Calls :
    /\ call[c].pc \in {"fcm", "cleanup"} =>
         call[c].expoPayloads =
           [i \in 1..Len(call[c].sentExpo) |->
              [to |-> call[c].sentExpo[i], title |-> "SOS Alert",
               body |-> "Tap to view location", sound |-> "default", priority |-> "high",
               channelId |-> "sos",
               data |-> [type |-> "sos", eventId |-> call[c].eventId]]]
    /\ call[c].pc = "cleanup" =>
         call[c].fcmPayloads =
           [i \in 1..Len(call[c].sentWeb) |->
              [token |-> call[c].sentWeb[i],
               data |-> [type |-> "sos", eventId |-> call[c].eventId, title |-> "SOS Alert",
                         body |-> "Tap to view location"],
               webpush |-> [headers |-> [Urgency |-> "high"]]]]

\* An event with a text and a position was pushed on both transports.
C13_Witness ==
  \E c \in Calls :
    /\ call[c].pc = "cleanup"
    /\ Len(call[c].expoPayloads) = 1 /\ Len(call[c].fcmPayloads) = 1
    /\ events[call[c].eventId].message = "fire at home"
    /\ events[call[c].eventId].lat = 32 /\ events[call[c].eventId].lon = 32

\* The codes of the five preconditions.
PreconditionCodes == {"unauthenticated", "invalid-argument", "resource-exhausted",
                      "not-found", "permission-denied"}

\* C14: a call that ends with unauthenticated, invalid-argument,
\* resource-exhausted, not-found or permission-denied has sent no push and
\* deleted no device record, and a call that has passed the ownership check
\* never ends with one of these codes.
C14_FailBeforeSend ==
  /\ [](\A c \in Calls :
          (call[c].pc = "done" /\ call[c].result.code \in PreconditionCodes) =>
            call[c].sentExpo = <<>> /\ call[c].sentWeb = <<>> /\ call[c].deleted = {})
  /\ [][\A c \in Calls :
          (call[c].pc \in {"contacts", "tokens", "expo", "fcm", "cleanup"}
             /\ call'[c].pc = "done") =>
            call'[c].result.code \notin PreconditionCodes]_vars

\* The caller, whose accepted contact has a device, was refused by the rate
\* limit after three calls that passed.
C14_Witness ==
  \E c \in Calls :
    /\ call[c].pc = "done" /\ call[c].result.code = "resource-exhausted"
    /\ call[c].sentExpo = <<>> /\ call[c].deleted = {}
    /\ passed[call[c].uid] = 3
    /\ trusted[call[c].uid]["b"].status = "accepted"
    /\ devices["b"]["d1"].expoPushToken = "x1"

\* A step of createRequest, respond or cancelRequest.
TrustStep == trustOp' # trustOp \/ trusted' # trusted \/ incoming' # incoming

\* C15: createRequest by an owner for an account with which an edge exists
\* (pending, accepted or rejected) fails and leaves both mirrored records
\* unchanged.
C15_NoOverwrite ==
  [][\A o \in Accounts, t \in Accounts :
       ( /\ TrustStep
         /\ trustOp'.op = "create" /\ trustOp'.owner = o /\ trustOp'.trusted = t
         /\ trusted[o][t].exists )
       => /\ ~trustOp'.ok
          /\ trusted'[o][t] = trusted[o][t]
          /\ incoming'[t][o] = incoming[t][o]]_vars

\* C16: createRequest writes nothing when the lookup finds no account or
\* finds the owner, and no state holds an edge from an account to itself.
C16_NoSelfEdge ==
  /\ [](\A u \in Accounts : ~trusted[u][u].exists /\ ~incoming[u][u].exists)
  /\ [][( /\ TrustStep
          /\ trustOp'.op = "create"
          /\ trustOp'.trusted \in {NoUid, trustOp'.owner} )
        => (~trustOp'.ok /\ UNCHANGED <<trusted, incoming>>)]_vars

\* An owner with an edge to another account asked for itself and was refused.
C16_Witness ==
  \E o \in Accounts, t \in Accounts :
    /\ o # t /\ trusted[o][t].exists /\ incoming[t][o].exists
    /\ trustOp = [op |-> "create", ok |-> FALSE, by |-> o, owner |-> o, trusted |-> o,
                  status |-> "pending"]

\* C17: the status of an existing edge changes only from pending to accepted
\* or rejected, through respond executed by the edge's trusted account; an
\* accepted or rejected edge keeps its status until it is deleted.
C17_StatusOnce ==
  [][\A o \in Accounts, t \in Accounts :
       /\ ( /\ trusted[o][t].exists /\ trusted'[o][t].exists
            /\ trusted'[o][t].status # trusted[o][t].status )
          => /\ trusted[o][t].status = "pending"
             /\ trusted'[o][t].status \in {"accepted", "rejected"}
             /\ trustOp' = [op |-> "respond", ok |-> TRUE, by |-> t, owner |-> o, trusted |-> t,
                             status |-> trusted'[o][t].status]
       /\ ( /\ incoming[t][o].exists /\ incoming'[t][o].exists
            /\ incoming'[t][o].status # incoming[t][o].status )
          => /\ incoming[t][o].status = "pending"
             /\ incoming'[t][o].status \in {"accepted", "rejected"}
             /\ trustOp' = [op |-> "respond", ok |-> TRUE, by |-> t, owner |-> o, trusted |-> t,
                             status |-> incoming'[t][o].status]]_vars

\* C18: after the createRequest of A for B the edge is pending on both sides;
\* after the respond(accepted) of B it is accepted on both sides; and the sendSos of
\* A for its own event, with B its one accepted contact, returns
\* recipients = 1, and tokens = 1, sent = 1, errors = 0 when B has exactly
\* one registered token and the transport accepts it.
C18_EndToEnd ==
  /\ [][\A a \in Accounts, b \in Accounts :
          (TrustStep /\ trustOp' = [op |-> "create", ok |-> TRUE, by |-> a, owner |-> a,
                                    trusted |-> b, status |-> "pending"])
          => /\ trusted'[a][b].exists /\ trusted'[a][b].status = "pending"
             /\ incoming'[b][a].exists /\ incoming'[b][a].status = "pending"]_vars
  /\ [][\A a \in Accounts, b \in Accounts :
          (TrustStep /\ trustOp' = [op |-> "respond", ok |-> TRUE, by |-> b, owner |-> a,
                                    trusted |-> b, status |-> "accepted"])
          => /\ trusted'[a][b].exists /\ trusted'[a][b].status = "accepted"
             /\ incoming'[b][a].exists /\ incoming'[b][a].status = "accepted"]_vars
  /\ [][\A c \in Calls, b \in Accounts :
          ( /\ call[c].pc = "cleanup" /\ call'[c].pc = "done"
            /\ call'[c].result.code = "ok"
            /\ call[c].accepted = {b} )
          => /\ call'[c].result.recipients = 1
             /\ ( /\ Cardinality(call[c].okExpo \cup call[c].okWeb) = 1
                  /\ call[c].expoRes.errors = <<>> /\ call[c].fcmRes.errors = <<>> )
                => /\ call'[c].result.tokens = 1
                   /\ call'[c].result.sent = 1
                   /\ call'[c].result.errors = 0]_vars

\* The whole trace was run: the edge of a to b is accepted on both sides and
\* the call of a for its event returned one recipient, one token, one push.
C18_Witness ==
  \E c \in Calls :
    /\ call[c].pc = "done" /\ call[c].uid = "a"
    /\ events[call[c].eventId].senderUid = "a"
    /\ call[c].result = [code |-> "ok", sent |-> 1, recipients |-> 1, tokens |-> 1,
                         expoTokens |-> 1, webTokens |-> 0, errors |-> 0]
    /\ trusted["a"]["b"].status = "accepted" /\ incoming["b"]["a"].status = "accepted"
    /\ ~trusted["a"]["c"].exists

\* C19: in the result of a call that resolved recipients, recipients is the
\* number of the caller's accepted edges, expoTokens and webTokens are the
\* numbers of distinct non-empty token strings in the recipients' device
\* records, tokens is their sum; tokens is 0 exactly when no recipient has a
\* token, and then nothing is handed to a transport.
C19_ResultCounts ==
  [][\A c \in Calls :
       (call[c].pc = "cleanup" /\ call'[c].pc = "done" /\ call'[c].result.code = "ok") =>
         /\ call'[c].result.recipients = Cardinality(call[c].accepted)
         /\ call'[c].result.recipients > 0
         /\ call'[c].result.expoTokens = Cardinality(call[c].okExpo)
         /\ call'[c].result.webTokens = Cardinality(call[c].okWeb)
         /\ call'[c].result.tokens = call'[c].result.expoTokens + call'[c].result.webTokens
         /\ (call'[c].result.tokens = 0) <=> (call[c].okExpo \cup call[c].okWeb = {})
         /\ (call'[c].result.tokens = 0) =>
              (call'[c].sentExpo = <<>> /\ call'[c].sentWeb = <<>>)]_vars

\* A call whose recipient has two records, both with the Expo token x1 and
\* one with the web token w1 as well, counted each string once.
C19_Witness ==
  \E c \in Calls :
    /\ call[c].pc = "done" /\ call[c].result.code = "ok"
    /\ call[c].result.recipients = 1
    /\ call[c].result.expoTokens = 1 /\ call[c].result.webTokens = 1
    /\ call[c].result.tokens = 2
    /\ call[c].sentExpo = <<"x1">> /\ call[c].sentWeb = <<"w1">>
    /\ call[c].deleted = {<<"b", "d1">>, <<"b", "d2">>}

\* C21: in a call with tokens of both transports the send of transport B
\* (FCM) is started whatever the progress and the outcome of transport A
\* (Expo), and sent, errors and the invalid tokens are computed only once
\* both transports have completed.
C21_TransportsIndependent ==
  [][\A c \in Calls :
       /\ ( /\ call[c].pc = "expo" /\ call'[c].pc # "expo"
            /\ Len(ExpoTokensOf(c)) > 0 /\ Len(WebTokensOf(c)) > 0 )
          => /\ call'[c].pc = "fcm"
             /\ call'[c].sentExpo = ExpoTokensOf(c)
       /\ ( /\ call'[c].pc = "done" /\ call[c].pc # "done"
            /\ call'[c].result.code = "ok" /\ call'[c].result.tokens > 0 )
          => /\ call[c].pc = "cleanup"
             /\ Range(call[c].sentExpo) = Range(ExpoTokensOf(c))
             /\ Range(call[c].sentWeb) = Range(WebTokensOf(c))]_vars

\* The calls of u that passed the rate-limit step with a timestamp in [t, t + 30 min).
PassedIn(u, t) ==
  {i \in 1..Len(passLog[u]) : passLog[u][i].now >= t /\ passLog[u][i].now < t + 1800000}

\* C22 as stated: for every sender and every interval of 30 minutes, aligned
\* with windowStart or not, at most 3 calls made inside the interval pass the
\* rate-limit step. (An interval holding more than 3 passes holds one that
\* starts at the timestamp of a pass.)
C22_SlidingWindow_AsStated ==
  \A u \in Accounts :
    \A i \in 1..Len(passLog[u]) : Cardinality(PassedIn(u, passLog[u][i].now)) <= 3

\* The calls of u that passed under the window that started at w.
PassedUnder(u, w) == {i \in 1..Len(passLog[u]) : passLog[u][i].windowStart = w}

\* C22, amended: for every sender and every window of its record (the calls
\* counted between two resets of windowStart) at most 3 calls pass, each made
\* less than 30 minutes after windowStart, and two windows start at least 30
\* minutes apart.
C22_SlidingWindow ==
  \A u \in Accounts :
    \A i \in 1..Len(passLog[u]) :
      LET w == passLog[u][i].windowStart IN
      /\ Cardinality(PassedUnder(u, w)) <= 3
      /\ passLog[u][i].now - w < 1800000
      /\ \A j \in 1..Len(passLog[u]) :
           passLog[u][j].windowStart > w => passLog[u][j].windowStart - w >= 1800000

\* A full window was followed by a reset, and more than 3 of the calls that
\* passed were made within 30 minutes.
C22_Witness ==
  \E u \in Accounts :
    \E i, j \in 1..Len(passLog[u]) :
      /\ passLog[u][i].windowStart < passLog[u][j].windowStart
      /\ Cardinality(PassedUnder(u, passLog[u][i].windowStart)) = 3
      /\ Cardinality(PassedIn(u, passLog[u][i].now)) > 3

\* The token strings the installations of a contact register.
ContactTokens(t) == {r[4] : r \in {q \in ConsentDevices : q[1] = t}}

\* The contacts of u without an edge from u, or with a rejected one.
Removed(u) == {t \in Accounts : ~trusted[u][t].exists \/ trusted[u][t].status = "rejected"}

SizeOf(transport) ==
  CASE transport = "expo" -> 100
    [] transport = "fcm" -> 500
    [] OTHER -> 450

\* C24: chunk splits a list into consecutive non-empty batches of at most n
\* elements whose concatenation is the list in order: every token of a
\* dispatch is in exactly one transport call, no Expo call carries more than
\* 100 messages, no FCM call more than 500 tokens and no delete batch more
\* than 450 references.
C24_ChunkPartition ==
  delivery.pc \in {"returned", "thrown"} =>
    LET bs == delivery.batches IN
    /\ \A b \in 1..Len(bs) : Len(bs[b]) >= 1 /\ Len(bs[b]) <= SizeOf(delivery.transport)
    /\ \A b \in 1..(Len(bs) - 1) : Len(bs[b]) = SizeOf(delivery.transport)
    /\ delivery.pc = "returned" =>
         /\ Flatten(bs) = [i \in 1..delivery.n |-> i]
         /\ \A t \in EdgeTokens(delivery.n, SizeOf(delivery.transport)) :
              Cardinality({b \in 1..Len(bs) : \E i \in 1..Len(bs[b]) : bs[b][i] = t}) = 1

\* 901 record references were deleted in three batches of 450, 450 and 1.
C24_Witness ==
  /\ delivery.pc = "returned" /\ delivery.transport = "delete" /\ delivery.n = 901
  /\ Len(delivery.batches) = 3
  /\ Len(delivery.batches[1]) = 450 /\ Len(delivery.batches[3]) = 1

\* The call ended after the rate-limit step without resolving a recipient.
EndedEarly(cl) ==
  /\ cl.pc = "done"
  /\ \/ cl.result.code \in {"not-found", "permission-denied"}
     \/ cl.result = ZeroResult

\* C25: the rate counter is incremented before the event is looked up: a
\* call that ends with not-found, permission-denied or the no-recipients
\* result has been counted in the caller's window, and when three calls have
\* been counted in the window the caller's next call in it fails with
\* resource-exhausted, also for its own stored event.
C25_QuotaConsumed ==
  /\ [][\A c \in Calls :
          (call[c].pc # "done" /\ EndedEarly(call'[c]))
          => /\ call[c].pc \in {"event", "contacts"}
             /\ rate[call[c].uid].exists /\ rate[call[c].uid].count >= 1
             /\ \E i \in 1..Len(passLog[call[c].uid]) :
                  passLog[call[c].uid][i].now = call[c].now]_vars
  /\ [][\A c \in Calls :
          LET u == call[c].uid
              ev == events[call[c].eventId]
          IN ( /\ call[c].pc = "rate_get" /\ call'[c].pc # "rate_get"
               /\ ev.exists /\ ev.senderUid = u
               /\ rate[u].exists
               /\ Cardinality(PassedUnder(u, rate[u].windowStart)) = 3
               /\ call[c].now - rate[u].windowStart < 1800000 )
             => /\ call'[c].pc = "done"
                /\ call'[c].result.code = "resource-exhausted"
                /\ UNCHANGED rate]_vars

\* No call of the sender ever resolved a recipient, three were counted in
\* the window, and its call for its own stored event was refused.
C25_Witness ==
  \E c \in Calls :
    /\ call[c].pc = "done" /\ call[c].result.code = "resource-exhausted"
    /\ events[call[c].eventId].exists /\ events[call[c].eventId].senderUid = call[c].uid
    /\ Cardinality(PassedUnder(call[c].uid, rate[call[c].uid].windowStart)) = 3
    /\ \A t \in Accounts : ~trusted[call[c].uid][t].exists
    /\ ~events["e2"].exists \/ events["e2"].senderUid # call[c].uid

\* The records read by call c that hold a token of each transport, exactly
\* one of which was answered as permanently invalid.
HalfInvalid(c) ==
  {d \in Range(Flatten(call[c].tokenDocs)) :
     /\ d.expoPushToken # "" /\ d.webPushToken # ""
     /\ (d.expoPushToken \in Answered(call[c].expoRes, ExpoPermanent))
          # (d.webPushToken \in Answered(call[c].fcmRes, FcmPermanent))}

\* The token of d that was not answered as permanently invalid, as
\* <<field, token>>.
OtherToken(c, d) ==
  IF d.expoPushToken \in Answered(call[c].expoRes, ExpoPermanent)
    THEN <<"webPushToken", d.webPushToken>>
    ELSE <<"expoPushToken", d.expoPushToken>>

OtherHolders(ref, field, token) ==
  {q \in (Accounts \X DeviceIds) \ {ref} :
     devices[q[1]][q[2]].exists /\ devices[q[1]][q[2]][field] = token}

C27_IndexCleanup ==
  (delivery.pc = "returned" /\ delivery.transport = "expo-only") =>
    \A t \in delivery.deleted :
      /\ t \in delivery.bad
      /\ delivery.code \in {"DeviceNotRegistered", "InvalidCredentials"}
      /\ BatchOf(t, 100) \notin delivery.httpFailed

\* C28: after any interleaving of setMyPhoneNumber calls from empty stores,
\* phone_index[p].uid = u exactly when users[u].phone = p, every account
\* holds at most one phone and every phone is held by at most one account.
C28_PhoneConsistent ==
  /\ \A p \in Phones, u \in Accounts :
       (phone_index[p].exists /\ phone_index[p].uid = u) <=> users[u].phone = p
  /\ \A u \in Accounts :
       Cardinality({p \in Phones : phone_index[p].exists /\ phone_index[p].uid = u}) <= 1
  /\ \A p \in Phones : Cardinality({u \in Accounts : users[u].phone = p}) <= 1

\* Two accounts hold the two numbers, and a call for a number in use was
\* refused.
C28_Witness ==
  /\ \E u, v \in Accounts : u # v /\ users[u].phone = "p1" /\ users[v].phone = "p2"
  /\ phone_index["p1"].exists /\ phone_index["p2"].exists
  /\ \E k \in PhoneCalls : pcall[k].pc = "done" /\ pcall[k].result = "already-exists"

\* C29: once stopAlarm() was called and has returned, and startAlarm() was
\* not called after it, the siren is not playing and no vibration is active,
\* also when the stopAlarm() ran while a startAlarm() was awaiting the sound.
C29_AlarmStops ==
  ( /\ alarm.last = "stop"
    /\ \A j \in AlarmSlots : alarm.stop[j].pc \in {"idle", "done"} )
  => (alarm.playing = {} /\ ~alarm.vibrating)

\* The entries of the errors of a transport that stand for a whole batch.
HttpErrors(res) == {i \in 1..Len(res.errors) : res.errors[i].type = "http_error"}

\* C30: in a call that returns, each transport answering once per token,
\* sent + errors <= tokens, with equality when no Expo batch is refused as a
\* whole (a refused batch adds one error for all its tokens), and errors
\* counts the permanently invalid tokens as well as the other failures.
C30_SentPlusErrors ==
  [][\A c \in Calls :
       (call[c].pc = "cleanup" /\ call'[c].pc = "done" /\ call'[c].result.code = "ok") =>
         LET r == call'[c].result IN
         /\ r.sent + r.errors <= r.tokens
         /\ HttpErrors(call[c].expoRes) = {} => r.sent + r.errors = r.tokens
         /\ HttpErrors(call[c].expoRes) # {} =>
              r.sent + r.errors = r.tokens - Cardinality(call[c].refused) + 1
         /\ r.errors = Cardinality(Answered(call[c].expoRes, ExpoCodes \ {"ok"}))
                         + Cardinality(Answered(call[c].fcmRes, FcmCodes \ {"ok"}))
                         + Cardinality(HttpErrors(call[c].expoRes))]_vars

\* The batch of the two Expo tokens was refused and the web token delivered:
\* three tokens, one sent, one error.
C30_Witness ==
  \E c \in Calls :
    /\ call[c].pc = "done" /\ call[c].result.code = "ok"
    /\ call[c].result.tokens = 3 /\ call[c].result.expoTokens = 2
    /\ call[c].result.sent = 1 /\ call[c].result.errors = 1
    /\ call[c].deleted = {}

====
